---------------------------- MODULE Spec2Model ----------------------------
(***************************************************************************)
(* A model of the NvBot crypto momentum bot: the signal generator          *)
(* (signals/signal_generator.py), the streaming collector                  *)
(* (data/data_fetcher.py), the bot's start-up and shutdown (main.py) and   *)
(* the momentum detector's analysis cycle (core/momentum_detector.py).     *)
(*                                                                         *)
(* Each component has its own specification over its own variables; the    *)
(* variables of the other components stay at their initial values.         *)
(*   GenSpec   the signal generator, clock in hours                        *)
(*   GateSpec  the signal generator on signals at the edges of its gate    *)
(*   ColSpec   the collector: start(), stop() and the shard tasks          *)
(*   BotSpec   the bot's start() and stop() over the collector             *)
(*   BotFair   BotSpec with the event loop's fairness                      *)
(*   BufSpec   the rolling candle buffer                                   *)
(*   DetSpec   the detector's cycle and its result cache, clock in seconds *)
(*   TopSpec   the detector's cycles on a market of six symbols           *)
(*   SemSpec   the analysis units of one cycle under their semaphore       *)
(*   SemFair   SemSpec with the event loop's fairness                      *)
(*   AvgSpec   the trend averager's windows, clock in hours                *)
(*   ScoreSpec one symbol's sub-scores and their unification             *)
(*   TrendSpec the trend averager's averages and trends on one symbol     *)
(*   MsgSpec   one shard's messages, caches and callbacks                  *)
(*   TechSpec  the technical analyzer with the repository's indicators   *)
(*   PresSpec  the dashboard's accessors against the batch that writes     *)
(*   FeedSpec  one symbol from the collector's store to the detector     *)
(*   SchedSpec the pacing of the bot's analysis loop, clock in seconds     *)
(***************************************************************************)
EXTENDS Integers, Sequences, FiniteSets, TLC

VARIABLES
    \* ---- SignalGenerator (signals/signal_generator.py)
    clock,               \* datetime.now(), in whole hours since an epoch midnight
    generated_signals,   \* self.generated_signals: the emitted trading signals
    daily_signal_count,  \* self.daily_signal_count
    last_reset_date,     \* self.last_reset_date (a day number)
    gen_ret,             \* what the last generate_final_signals call returned
    \* ---- MassiveDataCollector (data/data_fetcher.py)
    running,             \* self.running
    active_pairs,        \* self.active_pairs
    websocket_connections, \* self.websocket_connections: connection_id -> socket
    tasks,               \* the shard tasks created by _setup_websocket_connections
    sockets,             \* every socket opened so far: its open/closed state
    price_data,          \* self.price_data: symbol -> timeframe -> candle list
    feed,                \* the number of candles the exchange has closed so far
    stopCall,            \* the stop() call in flight, if any
    apiStarts,           \* start() calls made so far by callers other than the bot
    \* ---- CryptoMomentumBot (main.py)
    bot,                 \* the bot's flags and the position of start()/stop()
    \* ---- MomentumDetector (core/momentum_detector.py)
    now,                 \* datetime.now(), in seconds
    symbol_cache,        \* self.symbol_cache: symbol -> cached analysis
    cycle,               \* the detect_momentum_opportunities call in flight
    analysis_count,      \* self.analysis_count
    \* ---- the analysis units of one cycle (core/momentum_detector.py)
    semaphore,           \* asyncio.Semaphore(10): its value and its waiters
    analysis_tasks,      \* the units of the cycle: where each of them is
    \* ---- the pacing of _main_analysis_loop (main.py)
    scheduler,           \* the loop's position, its clock and its last cycle
    averaging,           \* SignalAveraging: its windows, its file, its clock
    dispatch,            \* one shard's caches, callbacks and last message
    technical_call,      \* a call of analyze_symbol_technicals: its data and result
    presentation,        \* current_opportunities, the batch writing it, a reader
    collection,          \* one symbol's store in the collector and its last cycle
    symbol_analysis      \* one symbol's analysis: its position and its results

genVars == <<clock, generated_signals, daily_signal_count, last_reset_date, gen_ret>>
colVars == <<running, active_pairs, websocket_connections, tasks, sockets, feed,
             stopCall, apiStarts>>
botVars == <<bot>>
bufVars == <<price_data>>
detVars == <<now, symbol_cache, cycle, analysis_count>>
semVars == <<semaphore, analysis_tasks>>
coreVars == <<genVars, colVars, botVars, bufVars, detVars>>
schedVars == <<scheduler>>
avgVars == <<averaging>>
scoreVars == <<symbol_analysis>>
msgVars == <<dispatch>>
techVars == <<technical_call>>
presVars == <<presentation>>
feedVars == <<collection>>
restVars == <<semVars, schedVars, avgVars, scoreVars, msgVars, techVars, presVars,
    feedVars>>
unregisteredVars == <<semVars, schedVars, avgVars, scoreVars, techVars, presVars,
    feedVars>>
notSemVars == <<coreVars, schedVars, avgVars, scoreVars, msgVars, techVars,
    presVars, feedVars>>
notSchedVars == <<coreVars, semVars, avgVars, scoreVars, msgVars, techVars,
    presVars, feedVars>>
notAvgVars == <<coreVars, semVars, schedVars, scoreVars, msgVars, techVars,
    presVars, feedVars>>
notScoreVars == <<coreVars, semVars, schedVars, avgVars, msgVars, techVars,
    presVars, feedVars>>
notScoreCacheVars == <<genVars, colVars, botVars, bufVars, now, cycle,
    analysis_count, semVars, schedVars, avgVars, msgVars, techVars, presVars,
    feedVars>>
notMsgVars == <<coreVars, semVars, schedVars, avgVars, scoreVars, techVars,
    presVars, feedVars>>
notTechVars == <<coreVars, semVars, schedVars, avgVars, scoreVars, msgVars,
    presVars, feedVars>>
notPresVars == <<coreVars, semVars, schedVars, avgVars, scoreVars, msgVars, techVars,
    feedVars>>
notFeedVars == <<coreVars, semVars, schedVars, avgVars, scoreVars, msgVars, techVars,
    presVars>>
vars == <<coreVars, restVars>>

-----------------------------------------------------------------------------
(* Sequence helpers *)

Range(s) == {s[i] : i \in DOMAIN s}

\* s[:n]
Take(s, n) == SubSeq(s, 1, IF Len(s) < n THEN Len(s) ELSE n)

(* Float arithmetic *)

\* A Python float is an IEEE double: a quotient keeps MantissaBits bits
\* after its leading one.
MantissaBits == 52

\* The smallest mean the noise of a difference is computed for is
\* 2^-ExponentOffset.
ExponentOffset == 8

RECURSIVE Pow2(_)
Pow2(k) == IF k = 0 THEN 1 ELSE 2 * Pow2(k - 1)

\* 2^s modulo n.
RECURSIVE Pow2Mod(_, _)
Pow2Mod(s, n) == IF s = 0 THEN 1 % n ELSE (2 * Pow2Mod(s - 1, n)) % n

\* The binary exponent k of total / count: 2^k <= total / count < 2^(k+1).
RECURSIVE Exponent(_, _)
Exponent(total, count) ==
    IF total >= 2 * count THEN Exponent(total, 2 * count) + 1
    ELSE IF total < count THEN Exponent(2 * total, count) - 1
    ELSE 0

\* total / count on integers is the double nearest to the quotient. Its
\* error is c / (count * 2^(MantissaBits - k)), k the
\* exponent of the quotient: the remainder of total * 2^(MantissaBits - k)
\* by count is rounded away downwards when below half of count and upwards
\* otherwise (half of count is never met for a count below 2^MantissaBits).
float_error(total, count) ==
    IF total = 0 THEN [c |-> 0, k |-> 0]
    ELSE LET k == Exponent(total, count)
             r == ((total % count) * Pow2Mod(MantissaBits - k, count)) % count
         IN  [c |-> IF 2 * r < count THEN -r ELSE count - r, k |-> k]

-----------------------------------------------------------------------------
(* SignalGenerator: signals/signal_generator.py                            *)
(* Scores and sub-scores are integers; target_probability is in percent;   *)
(* the tier 'DÉBIL' is written "DEBIL".                                    *)

TARGET_DAILY_SIGNALS == 3
ExtraStrongSignals == 2
MaxStrongSlots == 3
MedioMinScore == 65
DedupHours == 2
ValidHours == 4
PruneHours == 24
HoursPerDay == 24

\* datetime.now().date()
Date(t) == t \div HoursPerDay

Symbols == {"AUSDT", "BUSDT", "CUSDT", "DUSDT", "EUSDT", "FUSDT"}

\* The scoring profiles the candidate batches are built from.
Profiles ==
    << [confidence_level |-> "FUERTE", total_score |-> 90, recommendation |-> "STRONG_BUY",
       target_probability |-> 80, historical_score |-> 22, technical_score |-> 45,
       confluence_score |-> 23],
      [confidence_level |-> "ALTO", total_score |-> 75, recommendation |-> "BUY",
       target_probability |-> 60, historical_score |-> 18, technical_score |-> 38,
       confluence_score |-> 19],
      [confidence_level |-> "MEDIO", total_score |-> 66, recommendation |-> "WEAK_BUY",
       target_probability |-> 50, historical_score |-> 16, technical_score |-> 34,
       confluence_score |-> 16],
      [confidence_level |-> "MEDIO", total_score |-> 62, recommendation |-> "WEAK_BUY",
       target_probability |-> 45, historical_score |-> 15, technical_score |-> 32,
       confluence_score |-> 15],
      [confidence_level |-> "DEBIL", total_score |-> 40, recommendation |-> "HOLD",
       target_probability |-> 30, historical_score |-> 10, technical_score |-> 20,
       confluence_score |-> 10],
      [confidence_level |-> "ALTO", total_score |-> 74, recommendation |-> "BUY",
       target_probability |-> 72, historical_score |-> 12, technical_score |-> 50,
       confluence_score |-> 12],
      [confidence_level |-> "ALTO", total_score |-> 72, recommendation |-> "BUY",
       target_probability |-> 70, historical_score |-> 11, technical_score |-> 50,
       confluence_score |-> 11],
      [confidence_level |-> "ALTO", total_score |-> 75, recommendation |-> "HOLD",
       target_probability |-> 60, historical_score |-> 18, technical_score |-> 38,
       confluence_score |-> 19],
      [confidence_level |-> "MEDIO", total_score |-> 66, recommendation |-> "WEAK_BUY",
       target_probability |-> 30, historical_score |-> 16, technical_score |-> 34,
       confluence_score |-> 16],
      [confidence_level |-> "MEDIO", total_score |-> 55, recommendation |-> "WATCH",
       target_probability |-> 40, historical_score |-> 13, technical_score |-> 29,
       confluence_score |-> 13],
      [confidence_level |-> "FUERTE", total_score |-> 85, recommendation |-> "STRONG_BUY",
       target_probability |-> 75, historical_score |-> 21, technical_score |-> 43,
       confluence_score |-> 21],
      [confidence_level |-> "DEBIL", total_score |-> 50, recommendation |-> "BUY",
       target_probability |-> 60, historical_score |-> 12, technical_score |-> 26,
       confluence_score |-> 12],
      [confidence_level |-> "MEDIO", total_score |-> 44, recommendation |-> "WEAK_BUY",
       target_probability |-> 50, historical_score |-> 12, technical_score |-> 20,
       confluence_score |-> 12] >>

\* A unified signal offered to the generator: the k-th profile for a symbol.
Unified(sym, k) ==
    [symbol |-> sym, confidence_level |-> Profiles[k].confidence_level,
     total_score |-> Profiles[k].total_score,
     recommendation |-> Profiles[k].recommendation,
     target_probability |-> Profiles[k].target_probability,
     historical_score |-> Profiles[k].historical_score,
     technical_score |-> Profiles[k].technical_score,
     confluence_score |-> Profiles[k].confluence_score]

\* The unified signals the batches are drawn from: among them two FUERTE
\* profiles of different priority.
Pool ==
    { Unified("AUSDT", 1), Unified("BUSDT", 1), Unified("CUSDT", 11),
      Unified("AUSDT", 2), Unified("BUSDT", 3), Unified("CUSDT", 4),
      Unified("AUSDT", 5) }

MaxBatch == 2
Batches == UNION {[1..n -> Pool] : n \in 0..MaxBatch}

\* The unified signals the eligibility gate is tried on: signals at the
\* edges of each of its tests, and for each test one that fails it alone
\* (12: the DEBIL floor, 13: the total floor, 8: the recommendation,
\* 9: the probability).
GatePool ==
    { Unified("AUSDT", 1), Unified("BUSDT", 6), Unified("CUSDT", 7),
      Unified("AUSDT", 5), Unified("CUSDT", 8), Unified("BUSDT", 9),
      Unified("DUSDT", 12), Unified("EUSDT", 13) }

GateBatches == UNION {[1..n -> GatePool] : n \in 0..MaxBatch}

B2N(b) == IF b THEN 1 ELSE 0

\* A gate that tests the scores and leaves out the recommendation and the
\* probability.
meets_score_criteria(signal) ==
    IF signal.total_score < 45 THEN FALSE
    ELSE IF signal.confidence_level = "DEBIL" /\ signal.total_score < 55 THEN FALSE
    ELSE B2N(signal.historical_score >= 12) + B2N(signal.technical_score >= 25)
           + B2N(signal.confluence_score >= 12) >= 2

meets_minimum_criteria(signal) ==
    IF signal.total_score < 45 THEN FALSE
    ELSE IF signal.confidence_level = "DEBIL" /\ signal.total_score < 55 THEN FALSE
    ELSE IF signal.recommendation \notin {"STRONG_BUY", "BUY", "WEAK_BUY"} THEN FALSE
    ELSE IF signal.target_probability < 35 THEN FALSE
    ELSE B2N(signal.historical_score >= 12) + B2N(signal.technical_score >= 25)
           + B2N(signal.confluence_score >= 12) >= 2

\* An earlier signal of the same symbol newer than now - 2 hours.
is_duplicate_signal(signal, generated, t) ==
    \E i \in DOMAIN generated :
        /\ generated[i].symbol = signal.symbol
        /\ generated[i].timestamp > t - DedupHours

filter_candidate_signals(unified_signals, generated, count, t) ==
    SelectSeq(unified_signals,
        LAMBDA signal :
            /\ meets_minimum_criteria(signal)
            /\ ~is_duplicate_signal(signal, generated, t)
            /\ (count >= TARGET_DAILY_SIGNALS => signal.confidence_level = "FUERTE"))

confidence_weights(level) ==
    CASE level = "FUERTE" -> 20 [] level = "ALTO" -> 15 [] level = "MEDIO" -> 10
      [] level = "DEBIL" -> 5 [] OTHER -> 0

rec_weights(rec) ==
    CASE rec = "STRONG_BUY" -> 10 [] rec = "BUY" -> 8 [] rec = "WEAK_BUY" -> 6
      [] rec = "WATCH" -> 3 [] OTHER -> 0

\* a / c >= d / b for c > 0 and b > 0, by the continued fractions of the
\* two quotients (no product is formed).
RECURSIVE frac_ge(_, _, _, _)
frac_ge(a, c, d, b) ==
    LET qa == a \div c
        qd == d \div b
        ra == a % c
        rd == d % b
    IN  IF qa # qd THEN qa > qd
        ELSE IF rd = 0 THEN TRUE
        ELSE IF ra = 0 THEN FALSE
        ELSE frac_ge(b, rd, c, ra)

\* a * b >= c * d for naturals.
prod_ge(a, b, c, d) ==
    IF c = 0 \/ d = 0 THEN TRUE
    ELSE IF a = 0 \/ b = 0 THEN FALSE
    ELSE frac_ge(a, c, d, b)

\* m + sqrt(q) >= sqrt(p) for naturals q, p up to 1500 * 1500: a root is
\* at most 1500, so m >= 1500 decides for it and m < -1500 against it.
root_ge(m, q, p) ==
    IF m >= 0
    THEN \/ m >= 1500
         \/ m * m + q >= p
         \/ LET r == p - q - m * m IN prod_ge(4 * m * m, q, r, r)
    ELSE LET n == -m
         IN  /\ n <= 1500
             /\ q >= n * n + p
             /\ LET r == q - n * n - p IN prod_ge(r, r, 4 * n * n, p)

\* _calculate_balance_score: balance = max(0, 1 - stddev) of (hist/25,
\* tech/50, conf/25). With a, b, c the three in fiftieths and W the sum of
\* their squared pairwise differences, stddev = sqrt(W) / 150: the spread
\* is W, cut at 150 * 150 where the balance is 0.
calculate_balance_spread(signal) ==
    LET a == 2 * signal.historical_score
        b == signal.technical_score
        c == 2 * signal.confluence_score
        W == (a - b) * (a - b) + (b - c) * (b - c) + (a - c) * (a - c)
    IN  IF W > 22500 THEN 22500 ELSE W

\* The priority total/100*40 + probability*25 + tier + recommendation
\* + balance*5, kept exact: 100 * priority = base - 10/3 * sqrt(spread).
calculate_priority_score(signal) ==
    [base |-> signal.total_score * 40 + signal.target_probability * 25
                + 100 * confidence_weights(signal.confidence_level)
                + 100 * rec_weights(signal.recommendation) + 500,
     spread |-> calculate_balance_spread(signal)]

\* x >= y for two priorities, as real numbers:
\* 3 * (x.base - y.base) + sqrt(100 * y.spread) >= sqrt(100 * x.spread).
priority_ge(x, y) ==
    root_ge(3 * (x.base - y.base), 100 * y.spread, 100 * x.spread)

WithPriority(signal) ==
    [symbol |-> signal.symbol, confidence_level |-> signal.confidence_level,
     total_score |-> signal.total_score, recommendation |-> signal.recommendation,
     target_probability |-> signal.target_probability,
     historical_score |-> signal.historical_score,
     technical_score |-> signal.technical_score,
     confluence_score |-> signal.confluence_score,
     priority_score |-> calculate_priority_score(signal)]

\* Two signals whose priority is computed from the same numbers: the same
\* float.
same_priority_inputs(x, y) ==
    /\ x.total_score = y.total_score
    /\ x.target_probability = y.target_probability
    /\ x.confidence_level = y.confidence_level
    /\ x.recommendation = y.recommendation
    /\ x.historical_score = y.historical_score
    /\ x.technical_score = y.technical_score
    /\ x.confluence_score = y.confluence_score

\* sorted(..., key=priority_score, reverse=True) may place the candidate at
\* index i before the one at index j: its priority is the greater real
\* number; or the two are equal as real numbers and are computed from
\* different numbers, where the last bits of the two float sums decide; or
\* they are the same float and i comes first (the sort is stable).
may_precede(scored, i, j) ==
    LET x == scored[i].priority_score
        y == scored[j].priority_score
    IN  IF ~priority_ge(y, x) THEN TRUE
        ELSE IF ~priority_ge(x, y) THEN FALSE
        ELSE IF same_priority_inputs(scored[i], scored[j]) THEN i < j
        ELSE TRUE

\* A prioritization that computes the priorities and leaves the candidates
\* in the order they came in.
prioritize_unsorted(candidates) ==
    {[i \in DOMAIN candidates |-> WithPriority(candidates[i])]}

\* _prioritize_signals: the lists the sort can return, one list unless two
\* different candidates have priorities equal as real numbers.
prioritize_signals(candidates) ==
    LET scored == [i \in DOMAIN candidates |-> WithPriority(candidates[i])]
        n == Len(candidates)
        orders == {o \in [1..n -> 1..n] :
                      /\ \A i, j \in 1..n : i # j => o[i] # o[j]
                      /\ \A i, j \in 1..n : i < j => may_precede(scored, o[i], o[j])}
    IN  {[i \in 1..n |-> scored[o[i]]] : o \in orders}

\* One of the three selection loops of _select_final_signals over the
\* prioritized list; st = [final, selected_symbols, remaining_slots,
\* fuerte_count].
TierMatches(signal, st, tier) ==
    CASE tier = "FUERTE" ->
            signal.confidence_level = "FUERTE" /\ st.fuerte_count < MaxStrongSlots
      [] tier = "ALTO" -> signal.confidence_level = "ALTO"
      [] OTHER ->
            signal.confidence_level = "MEDIO" /\ signal.total_score >= MedioMinScore

RECURSIVE SelectLoop(_, _, _)
SelectLoop(s, st, tier) ==
    IF s = <<>> THEN st
    ELSE IF TierMatches(Head(s), st, tier) /\ Head(s).symbol \notin st.selected_symbols
         THEN LET st2 == [final |-> Append(st.final, Head(s)),
                          selected_symbols |-> st.selected_symbols \cup {Head(s).symbol},
                          remaining_slots |-> st.remaining_slots - 1,
                          fuerte_count |->
                              st.fuerte_count + B2N(tier = "FUERTE")]
              IN  IF st2.remaining_slots <= 0 THEN st2
                  ELSE SelectLoop(Tail(s), st2, tier)
         ELSE SelectLoop(Tail(s), st, tier)

select_final_signals(prioritized_signals, count) ==
    LET remaining_slots == TARGET_DAILY_SIGNALS - count
    IN  IF remaining_slots <= 0
        THEN Take(SelectSeq(prioritized_signals,
                            LAMBDA s : s.confidence_level = "FUERTE"),
                  ExtraStrongSignals)
        ELSE LET st0 == [final |-> <<>>, selected_symbols |-> {},
                         remaining_slots |-> remaining_slots, fuerte_count |-> 0]
                 st1 == SelectLoop(prioritized_signals, st0, "FUERTE")
                 st2 == IF st1.remaining_slots > 0
                        THEN SelectLoop(prioritized_signals, st1, "ALTO") ELSE st1
                 st3 == IF st2.remaining_slots > 0
                        THEN SelectLoop(prioritized_signals, st2, "MEDIO") ELSE st2
             IN  st3.final

format_trading_signal(signal, t) ==
    [symbol |-> signal.symbol, timestamp |-> t,
     confidence_level |-> signal.confidence_level,
     priority_score |-> signal.priority_score,
     total_score |-> signal.total_score,
     target_probability |-> signal.target_probability,
     recommendation |-> signal.recommendation,
     component_scores |-> [historical |-> signal.historical_score,
                           technical |-> signal.technical_score,
                           confluence |-> signal.confluence_score],
     valid_until |-> t + ValidHours, status |-> "ACTIVE"]

\* get_active_signals at time t
get_active_signals(generated, t) ==
    SelectSeq(generated, LAMBDA s : s.status = "ACTIVE" /\ s.valid_until > t)

\* A counter that starts from zero at every call.
ResetCountEveryCall(count, last_reset, t) == 0

\* _reset_daily_count_if_needed: the counter and the history after it ran at t.
ResetCount(count, last_reset, t) == IF Date(t) # last_reset THEN 0 ELSE count

ResetSignals(generated, last_reset, t) ==
    IF Date(t) # last_reset
    THEN SelectSeq(generated, LAMBDA s : s.timestamp > t - PruneHours)
    ELSE generated

\* The lists of trading signals one generate_final_signals call can emit
\* at time t, one for each list the prioritization can return.
EmittedBy(unified_signals, generated, count, last_reset, t) ==
    LET count0 == ResetCount(count, last_reset, t)
        generated0 == ResetSignals(generated, last_reset, t)
        candidates == filter_candidate_signals(unified_signals, generated0, count0, t)
    IN  {LET final == select_final_signals(prioritized_signals, count0)
         IN  [i \in DOMAIN final |-> format_trading_signal(final[i], t)] :
            prioritized_signals \in prioritize_signals(candidates)}

StartHour == 21
MaxClock == 24
MaxGenerated == 6

generate_final_signals(unified_signals) ==
    \E trading_signals \in EmittedBy(unified_signals, generated_signals,
                                     daily_signal_count, last_reset_date, clock) :
        /\ Len(generated_signals) < MaxGenerated
        /\ generated_signals' =
               ResetSignals(generated_signals, last_reset_date, clock) \o trading_signals
        /\ daily_signal_count' =
               ResetCount(daily_signal_count, last_reset_date, clock)
                 + Len(trading_signals)
        /\ last_reset_date' = Date(clock)
        /\ gen_ret' = trading_signals
        /\ UNCHANGED <<clock, colVars, botVars, bufVars, detVars, restVars>>

\* Time passes between two calls.
GenTick ==
    /\ clock < MaxClock
    /\ clock' = clock + 1
    /\ UNCHANGED <<generated_signals, daily_signal_count, last_reset_date, gen_ret>>
    /\ UNCHANGED <<colVars, botVars, bufVars, detVars, restVars>>

-----------------------------------------------------------------------------
(* MassiveDataCollector: data/data_fetcher.py                              *)
(* Pairs are numbered from 1; connection ids count from 1 where the        *)
(* code's enumerate() counts from 0.                                       *)

max_streams_per_connection == 190
BufferCapacity == 200
RetryDelay == 5

\* _get_active_usdt_pairs: the exchange's answer, n pairs by falling volume.
Universe(n) == [i \in 1..n |-> i]

\* _setup_websocket_connections: pairs[i:i + batch_size] for i in
\* range(0, len(pairs), batch_size)
NumBatches(pairs) ==
    (Len(pairs) + max_streams_per_connection - 1) \div max_streams_per_connection

pair_batches(pairs) ==
    [b \in 1..NumBatches(pairs) |->
        SubSeq(pairs, (b - 1) * max_streams_per_connection + 1,
               IF b * max_streams_per_connection < Len(pairs)
               THEN b * max_streams_per_connection ELSE Len(pairs))]

\* _create_websocket_connection: the stream names of a batch, four for each
\* pair, joined into the connection's URL.
StreamKinds == <<"ticker", "kline_1m", "kline_5m", "kline_15m">>

streams(pairs) ==
    [k \in 1..(Len(pairs) * Len(StreamKinds)) |->
        <<pairs[((k - 1) \div Len(StreamKinds)) + 1],
          StreamKinds[((k - 1) % Len(StreamKinds)) + 1]>>]

\* The universes the exchange answers with: one or two connection batches
\* for the collector on its own, none or one under the bot.
OneBatch == 1
TwoBatches == 191
ColUniverses == {OneBatch, TwoBatches}
BotUniverses == {0, OneBatch}

\* The pairs whose candles the exchange closes in the model: the first pair
\* of the first batch and the first pair of the second.
FeedPairs == {1, max_streams_per_connection + 1}

MaxTasks == 3
MaxSockets == 2
MaxFeed == 1
MaxCycles == 1

\* An eviction that removes the newest stored candle instead of the oldest.
AppendKlineEvictNewest(klines_list, processed_kline) ==
    IF Len(klines_list) >= BufferCapacity
    THEN Append(SubSeq(klines_list, 1, Len(klines_list) - 1), processed_kline)
    ELSE Append(klines_list, processed_kline)

\* klines_list.append(processed_kline); if len(klines_list) > 200: pop(0)
AppendKline(klines_list, processed_kline) ==
    LET appended == Append(klines_list, processed_kline)
    IN  IF Len(appended) > BufferCapacity THEN Tail(appended) ELSE appended

Klines(pd, symbol, timeframe) ==
    IF <<symbol, timeframe>> \in DOMAIN pd THEN pd[<<symbol, timeframe>>] ELSE <<>>

\* _process_kline_data: price_data after the kline message (x: is closed,
\* i: interval, t: open time) of a symbol.
process_kline_data(pd, symbol, kline) ==
    IF ~kline.x THEN pd
    ELSE LET key == <<symbol, kline.i>>
             processed_kline ==
                 [symbol |-> symbol, timeframe |-> kline.i, open_time |-> kline.t]
         IN  [k \in DOMAIN pd \cup {key} |->
                 IF k = key THEN AppendKline(Klines(pd, symbol, kline.i), processed_kline)
                 ELSE pd[k]]

\* self.websocket_connections, a dict in insertion order: <<[id, ws], ...>>
RegIndex(reg, cid) ==
    IF \E i \in DOMAIN reg : reg[i].id = cid
    THEN CHOOSE i \in DOMAIN reg : reg[i].id = cid ELSE 0

\* self.websocket_connections[connection_id] = websocket
SetConnection(reg, cid, ws) ==
    IF RegIndex(reg, cid) # 0 THEN [reg EXCEPT ![RegIndex(reg, cid)].ws = ws]
    ELSE Append(reg, [id |-> cid, ws |-> ws])

CloseSocket(socks, ws) == [socks EXCEPT ![ws] = FALSE]

\* asyncio.create_task(self._create_websocket_connection(batch, i)) for
\* every batch; gen names the call that created the tasks.
Spawn(ts, gen, pairs) ==
    ts \o [b \in 1..NumBatches(pairs) |->
              [gen |-> gen, connection_id |-> b, pairs |-> pair_batches(pairs)[b],
               pc |-> "loop", ws |-> 0, seen |-> 0, delay |-> 0]]

\* asyncio.gather(*connection_tasks) of the call gen has returned.
Gathered(gen) == \A t \in DOMAIN tasks : tasks[t].gen = gen => tasks[t].pc = "exited"

\* The feed's next message for the connection of task t, or 0.
NextMessage(t) ==
    LET mine == {i \in DOMAIN feed :
                    /\ i > tasks[t].seen
                    /\ \E j \in DOMAIN tasks[t].pairs : tasks[t].pairs[j] = feed[i].s}
    IN  IF mine = {} THEN 0 ELSE CHOOSE i \in mine : \A j \in mine : i <= j

\* except ConnectionClosed / except Exception: leave the async with block
\* (the socket closes) and sleep 5 seconds.
AfterFailure(ts, t) == [ts EXCEPT ![t].pc = "backoff", ![t].delay = RetryDelay]

SocketsAfterFailure(socks, ts, t) ==
    IF ts[t].pc = "waiting" THEN CloseSocket(socks, ts[t].ws) ELSE socks

\* while self.running: connect, or leave the loop and end the task
TaskLoop(t) ==
    /\ tasks[t].pc = "loop"
    /\ tasks' = [tasks EXCEPT ![t].pc = IF running THEN "connecting" ELSE "exited"]
    /\ UNCHANGED <<running, websocket_connections, sockets, feed, stopCall,
                   apiStarts, price_data>>
    /\ UNCHANGED <<active_pairs, botVars, genVars, detVars, restVars>>

\* websockets.connect succeeded: the socket is registered under the
\* connection id and the task waits for messages.
ConnectOk(t) ==
    /\ tasks[t].pc = "connecting"
    /\ Len(sockets) < MaxSockets
    /\ sockets' = Append(sockets, TRUE)
    /\ websocket_connections' =
           SetConnection(websocket_connections, tasks[t].connection_id,
                         Len(sockets) + 1)
    /\ tasks' = [tasks EXCEPT ![t].pc = "waiting", ![t].ws = Len(sockets) + 1,
                              ![t].seen = Len(feed)]
    /\ UNCHANGED <<running, feed, stopCall, apiStarts, price_data>>
    /\ UNCHANGED <<active_pairs, botVars, genVars, detVars, restVars>>

\* The connection is lost or raises, while connecting or while waiting for
\* a message.
ShardFails(t) ==
    /\ \/ tasks[t].pc = "connecting"
       \/ tasks[t].pc = "waiting" /\ sockets[tasks[t].ws]
    /\ sockets' = SocketsAfterFailure(sockets, tasks, t)
    /\ tasks' = AfterFailure(tasks, t)
    /\ UNCHANGED <<running, websocket_connections, feed, stopCall, apiStarts,
                   price_data>>
    /\ UNCHANGED <<active_pairs, botVars, genVars, detVars, restVars>>

\* async for message in websocket: a message arrives; the loop breaks when
\* the flag is cleared, otherwise the message is processed.
Receive(t) ==
    /\ tasks[t].pc = "waiting"
    /\ sockets[tasks[t].ws]
    /\ NextMessage(t) # 0
    /\ IF ~running
       THEN /\ sockets' = CloseSocket(sockets, tasks[t].ws)
            /\ tasks' = [tasks EXCEPT ![t].pc = "loop", ![t].seen = NextMessage(t)]
            /\ UNCHANGED price_data
       ELSE /\ price_data' = process_kline_data(price_data, feed[NextMessage(t)].s,
                                                feed[NextMessage(t)].k)
            /\ tasks' = [tasks EXCEPT ![t].pc = "processing",
                                      ![t].seen = NextMessage(t)]
            /\ UNCHANGED sockets
    /\ UNCHANGED <<running, websocket_connections, feed, stopCall, apiStarts>>
    /\ UNCHANGED <<active_pairs, botVars, genVars, detVars, restVars>>

\* _process_websocket_message returns (the callbacks were awaited).
FinishMessage(t) ==
    /\ tasks[t].pc = "processing"
    /\ tasks' = [tasks EXCEPT ![t].pc = "waiting"]
    /\ UNCHANGED <<running, websocket_connections, sockets, feed, stopCall,
                   apiStarts, price_data>>
    /\ UNCHANGED <<active_pairs, botVars, genVars, detVars, restVars>>

\* The peer ends the stream with a normal close while the task waits for
\* a message: the async for ends without raising, no except clause runs,
\* the async with block closes the socket and the task is back at its
\* loop test without having slept.
StreamEnds(t) ==
    /\ tasks[t].pc = "waiting"
    /\ sockets[tasks[t].ws]
    /\ sockets' = CloseSocket(sockets, tasks[t].ws)
    /\ tasks' = [tasks EXCEPT ![t].pc = "loop"]
    /\ UNCHANGED <<running, websocket_connections, feed, stopCall, apiStarts,
                   price_data>>
    /\ UNCHANGED <<active_pairs, botVars, genVars, detVars, restVars>>

\* The socket was closed by stop(): the async for ends without raising.
SeeClosed(t) ==
    /\ tasks[t].pc = "waiting"
    /\ ~sockets[tasks[t].ws]
    /\ tasks' = [tasks EXCEPT ![t].pc = "loop"]
    /\ UNCHANGED <<running, websocket_connections, sockets, feed, stopCall,
                   apiStarts, price_data>>
    /\ UNCHANGED <<active_pairs, botVars, genVars, detVars, restVars>>

\* asyncio.sleep(5) is over.
Wake(t) ==
    /\ tasks[t].pc = "backoff"
    /\ tasks' = [tasks EXCEPT ![t].pc = "loop", ![t].delay = 0]
    /\ UNCHANGED <<running, websocket_connections, sockets, feed, stopCall,
                   apiStarts, price_data>>
    /\ UNCHANGED <<active_pairs, botVars, genVars, detVars, restVars>>

\* The exchange closes a 1m candle of a pair.
FeedClose(s) ==
    /\ Len(feed) < MaxFeed
    /\ feed' = Append(feed, [s |-> s, k |-> [x |-> TRUE, i |-> "1m",
                                             t |-> Len(feed) + 1]])
    /\ UNCHANGED <<running, websocket_connections, tasks, sockets, stopCall,
                   apiStarts, price_data>>
    /\ UNCHANGED <<active_pairs, botVars, genVars, detVars, restVars>>

\* MassiveDataCollector.start() called by a caller other than the bot, up
\* to its gather: the flag is set, the pairs are fetched (n of them) and
\* one task per batch is created.
ApiStart(n) ==
    /\ Len(tasks) + NumBatches(Universe(n)) <= MaxTasks
    /\ apiStarts' = apiStarts + 1
    /\ running' = TRUE
    /\ active_pairs' = Universe(n)
    /\ tasks' = Spawn(tasks, "api", Universe(n))
    /\ UNCHANGED <<websocket_connections, sockets, feed, stopCall, price_data>>
    /\ UNCHANGED <<botVars, genVars, detVars, restVars>>

\* MassiveDataCollector.stop() up to its first await: the flag is cleared
\* and the first registered socket is being closed.
StopBegin ==
    /\ stopCall.pc # "closing"
    /\ tasks # <<>>
    /\ running' = FALSE
    /\ IF websocket_connections = <<>>
       THEN /\ stopCall' = [pc |-> "done", pos |-> 0, size |-> 0]
            /\ UNCHANGED <<websocket_connections, sockets>>
       ELSE /\ stopCall' = [pc |-> "closing", pos |-> 1,
                            size |-> Len(websocket_connections)]
            /\ sockets' = CloseSocket(sockets, websocket_connections[1].ws)
            /\ UNCHANGED websocket_connections
    /\ UNCHANGED <<tasks, feed, apiStarts, price_data>>
    /\ UNCHANGED <<active_pairs, botVars, genVars, detVars, restVars>>

\* stop() after an awaited close: the dict iteration raises RuntimeError
\* when a key was added meanwhile, else the next socket is closed, else the
\* registry is cleared.
StopStep ==
    /\ stopCall.pc = "closing"
    /\ IF Len(websocket_connections) # stopCall.size
       THEN /\ stopCall' = [stopCall EXCEPT !.pc = "raised"]
            /\ UNCHANGED <<websocket_connections, sockets>>
       ELSE IF stopCall.pos < stopCall.size
       THEN /\ stopCall' = [stopCall EXCEPT !.pos = @ + 1]
            /\ sockets' = CloseSocket(sockets,
                                      websocket_connections[stopCall.pos + 1].ws)
            /\ UNCHANGED websocket_connections
       ELSE /\ stopCall' = [stopCall EXCEPT !.pc = "done"]
            /\ websocket_connections' = <<>>
            /\ UNCHANGED sockets
    /\ UNCHANGED <<running, tasks, feed, apiStarts, price_data>>
    /\ UNCHANGED <<active_pairs, botVars, genVars, detVars, restVars>>

-----------------------------------------------------------------------------
(* CryptoMomentumBot and BotDashboardLauncher: main.py *)

\* CryptoMomentumBot.stop(), the definition in effect (the second one of
\* the class): self.running = False; mongodb_manager has no close(), the
\* AttributeError is caught and stop() returns without having waited.
BotStopped(b) == [b EXCEPT !.running = FALSE, !.shutdown = TRUE, !.stopped = TRUE]

\* start() up to its first rest: the signal handlers are installed and
\* initialize() waits in mongodb_manager.connect().
BotStart ==
    /\ bot.pc = "idle"
    /\ bot' = [bot EXCEPT !.pc = "connect", !.handlers = TRUE]
    /\ UNCHANGED <<running, websocket_connections, tasks, sockets, feed, stopCall,
                   apiStarts, price_data>>
    /\ UNCHANGED <<active_pairs, genVars, detVars, restVars>>

\* BotDashboardLauncher.start_integrated_system() up to its first rest: the
\* bot and the dashboard are created, the dashboard thread is started and
\* the launcher sleeps 3 seconds. The bot's own handlers are not installed;
\* main() has installed a handler that calls sys.exit(0).
start_integrated_system ==
    /\ bot.pc = "idle"
    /\ bot' = [bot EXCEPT !.pc = "sleep", !.launcher = TRUE]
    /\ UNCHANGED <<running, websocket_connections, tasks, sockets, feed, stopCall,
                   apiStarts, price_data>>
    /\ UNCHANGED <<active_pairs, genVars, detVars, restVars>>

\* The launcher's sleep is over: bot.initialize() waits in
\* mongodb_manager.connect().
LauncherWake ==
    /\ bot.pc = "sleep"
    /\ bot' = [bot EXCEPT !.pc = "connect"]
    /\ UNCHANGED <<running, websocket_connections, tasks, sockets, feed, stopCall,
                   apiStarts, price_data>>
    /\ UNCHANGED <<active_pairs, genVars, detVars, restVars>>

\* MongoDB answered: data_collector.initialize() fetches the pairs (n of
\* them), creates the shard tasks with the collector's flag still unset and
\* gathers them.
BotConnected(n) ==
    /\ bot.pc = "connect"
    /\ bot' = [bot EXCEPT !.pc = "await_init"]
    /\ active_pairs' = Universe(n)
    /\ tasks' = Spawn(tasks, "init", Universe(n))
    /\ UNCHANGED <<running, websocket_connections, sockets, feed, stopCall,
                   apiStarts, price_data>>
    /\ UNCHANGED <<genVars, detVars, restVars>>

\* initialize() raises (the ping of connect() or get_exchange_info fails):
\* start() logs the error and its finally clause awaits stop(); the
\* launcher's finally clause awaits stop_integrated_system(), which awaits
\* bot.stop().
BotInitFails ==
    /\ bot.pc = "connect"
    /\ bot' = [BotStopped(bot) EXCEPT !.pc = "done"]
    /\ UNCHANGED <<running, websocket_connections, tasks, sockets, feed, stopCall,
                   apiStarts, price_data>>
    /\ UNCHANGED <<active_pairs, genVars, detVars, restVars>>

\* self.data_collector.register_callback(self._on_new_data): the callback
\* catches what its body raises.
RegisterOnNewData(d) == [d EXCEPT !.data_callbacks = Append(@, "_on_new_data")]

\* The shard tasks of initialize() have ended: the callback is registered,
\* start() sets self.running (the launcher sets it later), then
\* collector.start() sets the collector's flag, fetches the pairs again,
\* creates the shard tasks again and gathers them.
BotInitDone(n) ==
    /\ bot.pc = "await_init"
    /\ Gathered("init")
    /\ bot' = [bot EXCEPT !.pc = "await_start",
                          !.running = IF bot.launcher THEN @ ELSE TRUE]
    /\ dispatch' = RegisterOnNewData(dispatch)
    /\ running' = TRUE
    /\ active_pairs' = Universe(n)
    /\ tasks' = Spawn(tasks, "start", Universe(n))
    /\ UNCHANGED <<websocket_connections, sockets, feed, stopCall, apiStarts,
                   price_data>>
    /\ UNCHANGED <<genVars, detVars, unregisteredVars>>

\* As BotInitDone, but get_exchange_info raises in collector.start(): the
\* collector's flag is set, no task is created, and the finally clause
\* awaits stop() (stop_integrated_system() in the launcher).
BotStartFails ==
    /\ bot.pc = "await_init"
    /\ Gathered("init")
    /\ bot' = [BotStopped(bot) EXCEPT !.pc = "done"]
    /\ dispatch' = RegisterOnNewData(dispatch)
    /\ running' = TRUE
    /\ UNCHANGED <<websocket_connections, tasks, sockets, feed, stopCall, apiStarts,
                   price_data>>
    /\ UNCHANGED <<active_pairs, genVars, detVars, unregisteredVars>>

\* collector.start() returned: the launcher sets bot.running now; the
\* analysis and report tasks are created and gathered.
BotCollectorStarted ==
    /\ bot.pc = "await_start"
    /\ Gathered("start")
    /\ bot' = [bot EXCEPT !.pc = "await_loops", !.analysis = "check",
                          !.report = "check",
                          !.running = IF bot.launcher THEN TRUE ELSE @]
    /\ UNCHANGED <<running, websocket_connections, tasks, sockets, feed, stopCall,
                   apiStarts, price_data>>
    /\ UNCHANGED <<active_pairs, genVars, detVars, restVars>>

\* How a cycle of _main_analysis_loop ends: with data analysed ("done"),
\* with no symbol data to analyse ("no_data"), or with an exception raised
\* in its body ("raised").
CycleEnds == {"done", "no_data", "raised"}

\* _main_analysis_loop: while self.running
AnalysisCheck ==
    /\ bot.analysis = "check"
    /\ bot' = IF bot.running
              THEN [bot EXCEPT !.analysis = "cycle",
                               !.late_cycle = bot.late_cycle \/ bot.shutdown]
              ELSE [bot EXCEPT !.analysis = "finished"]
    /\ UNCHANGED <<running, websocket_connections, tasks, sockets, feed, stopCall,
                   apiStarts, price_data>>
    /\ UNCHANGED <<active_pairs, genVars, detVars, restVars>>

\* The cycle is over and the loop sleeps. analysis_cycle_count advances
\* only when the cycle ran to its end ("done"): with no symbol data the
\* loop sleeps UPDATE_INTERVAL and continues, after an exception it sleeps
\* 5 seconds.
AnalysisCycleEnd(ending) ==
    /\ bot.analysis = "cycle"
    /\ bot' = [bot EXCEPT !.analysis = "sleeping",
                          !.cycles = IF ending = "done" /\ @ < MaxCycles
                                     THEN @ + 1 ELSE @]
    /\ UNCHANGED <<running, websocket_connections, tasks, sockets, feed, stopCall,
                   apiStarts, price_data>>
    /\ UNCHANGED <<active_pairs, genVars, detVars, restVars>>

AnalysisWake ==
    /\ bot.analysis = "sleeping"
    /\ bot' = [bot EXCEPT !.analysis = "check"]
    /\ UNCHANGED <<running, websocket_connections, tasks, sockets, feed, stopCall,
                   apiStarts, price_data>>
    /\ UNCHANGED <<active_pairs, genVars, detVars, restVars>>

\* _reporting_loop: while self.running: await asyncio.sleep(300)
ReportCheck ==
    /\ bot.report = "check"
    /\ bot' = [bot EXCEPT !.report = IF bot.running THEN "sleeping" ELSE "finished"]
    /\ UNCHANGED <<running, websocket_connections, tasks, sockets, feed, stopCall,
                   apiStarts, price_data>>
    /\ UNCHANGED <<active_pairs, genVars, detVars, restVars>>

ReportWake ==
    /\ bot.report = "sleeping"
    /\ bot' = [bot EXCEPT !.report = "check"]
    /\ UNCHANGED <<running, websocket_connections, tasks, sockets, feed, stopCall,
                   apiStarts, price_data>>
    /\ UNCHANGED <<active_pairs, genVars, detVars, restVars>>

\* Both loops ended: the finally clause awaits stop()
\* (stop_integrated_system() in the launcher).
BotLoopsDone ==
    /\ bot.pc = "await_loops"
    /\ bot.analysis = "finished" /\ bot.report = "finished"
    /\ bot' = [BotStopped(bot) EXCEPT !.pc = "done"]
    /\ UNCHANGED <<running, websocket_connections, tasks, sockets, feed, stopCall,
                   apiStarts, price_data>>
    /\ UNCHANGED <<active_pairs, genVars, detVars, restVars>>

\* SIGINT or SIGTERM with the bot's handlers installed: signal_handler sets
\* self.running = False.
SignalHandler ==
    /\ bot.handlers
    /\ ~bot.shutdown
    /\ bot' = [bot EXCEPT !.running = FALSE, !.shutdown = TRUE]
    /\ UNCHANGED <<running, websocket_connections, tasks, sockets, feed, stopCall,
                   apiStarts, price_data>>
    /\ UNCHANGED <<active_pairs, genVars, detVars, restVars>>

\* A cancelled task leaves at its await: CancelledError passes the except
\* Exception clauses, and the async with block closes the task's socket.
CancelAll(ts) == [t \in DOMAIN ts |-> [ts[t] EXCEPT !.pc = "exited", !.delay = 0]]

SocketsAfterCancel(socks, ts) ==
    [s \in DOMAIN socks |->
        /\ socks[s]
        /\ ~\E t \in DOMAIN ts :
               /\ ts[t].pc \in {"waiting", "processing"}
               /\ ts[t].ws = s]

\* SIGINT or SIGTERM under the launcher: the handler of main() calls
\* sys.exit(0). SystemExit ends the event loop and asyncio.run cancels
\* every task: the launcher's finally clause runs stop_integrated_system()
\* and with it bot.stop(), the loops and the shard tasks end where they
\* wait. The collector's flag and its registry are not touched.
LauncherSignal ==
    /\ bot.launcher
    /\ bot.pc \notin {"idle", "done"}
    /\ bot' = [BotStopped(bot) EXCEPT
                  !.pc = "done",
                  !.analysis = IF @ = "none" THEN @ ELSE "finished",
                  !.report = IF @ = "none" THEN @ ELSE "finished"]
    /\ tasks' = CancelAll(tasks)
    /\ sockets' = SocketsAfterCancel(sockets, tasks)
    /\ UNCHANGED <<running, websocket_connections, feed, stopCall, apiStarts,
                   price_data>>
    /\ UNCHANGED <<active_pairs, genVars, detVars, restVars>>

\* CryptoMomentumBot.stop() called from outside start().
BotStopCall ==
    /\ bot.pc \notin {"idle", "done"}
    /\ ~bot.stopped
    /\ bot' = BotStopped(bot)
    /\ UNCHANGED <<running, websocket_connections, tasks, sockets, feed, stopCall,
                   apiStarts, price_data>>
    /\ UNCHANGED <<active_pairs, genVars, detVars, restVars>>

\* The steps of a shard task that wait for nothing outside the program.
TaskStep(t) ==
    \/ TaskLoop(t)
    \/ FinishMessage(t)
    \/ SeeClosed(t)
    \/ Wake(t)

\* The steps of start() and of its two loops that the event loop takes
\* once the awaited tasks, sleeps and answers are there.
BotStep ==
    \/ LauncherWake
    \/ \E n \in BotUniverses : BotConnected(n)
    \/ \E n \in BotUniverses : BotInitDone(n)
    \/ BotCollectorStarted
    \/ AnalysisCheck
    \/ \E ending \in CycleEnds : AnalysisCycleEnd(ending)
    \/ AnalysisWake
    \/ ReportCheck
    \/ ReportWake
    \/ BotLoopsDone

-----------------------------------------------------------------------------
(* The rolling candle buffers fed one kline message at a time *)

BufSymbols == {1, 2}
MaxOpenTime == 202

\* The open time of the next candle of a symbol and timeframe: candles of
\* one stream arrive in time order.
NextOpenTime(pd, symbol, timeframe) ==
    IF Klines(pd, symbol, timeframe) = <<>> THEN 1
    ELSE Klines(pd, symbol, timeframe)[Len(Klines(pd, symbol, timeframe))].open_time + 1

\* _process_kline_data called with the next 1m kline of a symbol, closed
\* or still open.
KlineMessage(symbol, closed) ==
    /\ NextOpenTime(price_data, symbol, "1m") <= MaxOpenTime
    /\ price_data' = process_kline_data(price_data, symbol,
                         [x |-> closed, i |-> "1m",
                          t |-> NextOpenTime(price_data, symbol, "1m")])
    /\ UNCHANGED <<genVars, colVars, botVars, detVars, restVars>>

-----------------------------------------------------------------------------
(* MomentumDetector: core/momentum_detector.py                             *)
(* Times are in seconds; prices are in cents.                              *)

cache_duration == 300
MinVolume24h == 1000000
MinPriceCents == 1
MaxPriceCents == 100000
MinOpportunityScore == 30
MinWeakScore == 40
MaxStrongTop == 5
MaxHighTop == 3
MediumTopScore == 60
TopMargin == 2

\* The value None.
None == [none |-> TRUE]

\* market_data in the order of its keys; a symbol's entry is absent, below
\* the volume floor, or complete.
DetSymbols == <<"AUSDT", "BUSDT">>

ThinData == [volume_24h |-> 500000, price |-> 1000, has_data |-> TRUE]
FullData == [volume_24h |-> 2000000, price |-> 1000, has_data |-> TRUE]

Markets ==
    { SelectSeq([i \in DOMAIN DetSymbols |-> [symbol |-> DetSymbols[i], data |-> d[i]]],
                LAMBDA e : e.data # None) :
        d \in [DOMAIN DetSymbols -> {None, ThinData, FullData}] }

\* What the three analysers and the unifier make of a symbol: 0 when one
\* of them raises, else the index of the profile of the unified signal.
Analyses == {0, 1, 3, 4, 5}
Outcomes == [Range(DetSymbols) -> Analyses]

\* symbol.endswith('USDT'): every symbol of the model does.
should_analyze_symbol(symbol, symbol_data) ==
    /\ symbol \in Symbols
    /\ symbol_data.volume_24h >= MinVolume24h
    /\ symbol_data.price >= MinPriceCents
    /\ symbol_data.price <= MaxPriceCents
    /\ symbol_data.has_data

\* The outcome of a symbol whose unification raised inside unify_signals.
UnifyFailed == 11

\* What unify_signals returns from its except branch.
ErrorSignal(symbol) ==
    [symbol |-> symbol, total_score |-> 0, confidence_level |-> "DEBIL",
     error |-> "raised"]

\* max_component - min_component > 0.5 on the floats hist/25, tech/50 and
\* conf/25, each component given as [fiftieths, total, count] for the
\* quotient total / count: where the exact difference is 0.5 the float
\* difference is above it when the errors of the two quotients differ by
\* more than half the gap to the next double.
Imbalanced(components) ==
    LET hi == CHOOSE x \in components : \A y \in components : x.fiftieths >= y.fiftieths
        lo == CHOOSE x \in components : \A y \in components : x.fiftieths <= y.fiftieths
        e_hi == float_error(hi.total, hi.count)
        e_lo == float_error(lo.total, lo.count)
        noise == e_hi.c * Pow2(e_hi.k + ExponentOffset) * lo.count
                   - e_lo.c * Pow2(e_lo.k + ExponentOffset) * hi.count
    IN  \/ hi.fiftieths - lo.fiftieths > 25
        \/ /\ hi.fiftieths - lo.fiftieths = 25
           /\ 2 * noise > hi.count * lo.count * Pow2(ExponentOffset)

\* SignalUnifier._calculate_target_probability, in percent: the total
\* score capped at 95, plus the bonuses of the three sections, minus 10 for
\* a great imbalance, kept within 0..95.
calculate_target_probability(total_score, historical, technical, confluence) ==
    LET base_probability == IF total_score < 95 THEN total_score ELSE 95
        confluence_score == confluence.confluence_score
        tech_score == technical.technical_score
        hist_score == historical.historical_score
        adjustments ==
            (IF confluence_score >= 20 THEN 10
             ELSE IF confluence_score >= 15 THEN 5 ELSE 0)
            + (IF tech_score >= 40 THEN 8 ELSE IF tech_score >= 30 THEN 4 ELSE 0)
            + (IF hist_score >= 20 THEN 5 ELSE 0)
            - (IF Imbalanced({[fiftieths |-> 2 * hist_score, total |-> hist_score,
                               count |-> 25],
                              [fiftieths |-> tech_score, total |-> tech_score,
                               count |-> 50],
                              [fiftieths |-> 2 * confluence_score,
                               total |-> confluence_score, count |-> 25]})
               THEN 10 ELSE 0)
        final_probability == base_probability + adjustments
    IN  IF final_probability < 0 THEN 0
        ELSE IF final_probability > 95 THEN 95
        ELSE final_probability

\* The unified signal of an outcome that is no analyser failure: the
\* scores of the outcome's profile with the target probability
\* unify_signals computes from them.
UnifiedOutcome(symbol, outcome) ==
    IF outcome = UnifyFailed THEN ErrorSignal(symbol)
    ELSE LET signal == Unified(symbol, outcome)
         IN  [signal EXCEPT !.target_probability =
                 calculate_target_probability(
                     signal.total_score,
                     [historical_score |-> signal.historical_score],
                     [technical_score |-> signal.technical_score],
                     [confluence_score |-> signal.confluence_score])]

is_valid_opportunity(signal) ==
    IF signal.total_score < MinOpportunityScore THEN FALSE
    ELSE IF signal.recommendation \notin {"STRONG_BUY", "BUY", "WEAK_BUY", "WATCH"}
         THEN FALSE
    ELSE IF signal.confidence_level = "DEBIL" /\ signal.total_score < MinWeakScore
         THEN FALSE
    ELSE IF "error" \in DOMAIN signal THEN FALSE
    ELSE TRUE

Without(cache, symbols) == [s \in DOMAIN cache \ symbols |-> cache[s]]

\* A cache that still serves an entry at the very end of its life.
get_cached_analysis_late(cache, symbol, t) ==
    IF symbol \notin DOMAIN cache THEN [analysis |-> None, cache |-> cache]
    ELSE IF t - cache[symbol].cache_time <= cache_duration
         THEN [analysis |-> cache[symbol].analysis, cache |-> cache]
    ELSE [analysis |-> None, cache |-> Without(cache, {symbol})]

\* _get_cached_analysis: the stored analysis while it is fresh; an expired
\* entry is deleted.
get_cached_analysis(cache, symbol, t) ==
    IF symbol \notin DOMAIN cache THEN [analysis |-> None, cache |-> cache]
    ELSE IF t - cache[symbol].cache_time < cache_duration
         THEN [analysis |-> cache[symbol].analysis, cache |-> cache]
    ELSE [analysis |-> None, cache |-> Without(cache, {symbol})]

\* A cleanup that deletes nothing.
cleanup_cache_skipped(cache, t) == cache

\* _cleanup_cache
cleanup_cache(cache, t) ==
    Without(cache, {s \in DOMAIN cache : t - cache[s].cache_time >= cache_duration})

\* _cache_analysis
cache_analysis(cache, symbol, analysis, t) ==
    cleanup_cache([s \in DOMAIN cache \cup {symbol} |->
                      IF s = symbol THEN [analysis |-> analysis, cache_time |-> t]
                      ELSE cache[s]], t)

\* analyze_symbol_complete: the result, the cache afterwards, and whether
\* the analysers ran (fresh).
analyze_symbol_complete(cache, symbol, outcome, t) ==
    LET cached == get_cached_analysis(cache, symbol, t)
    IN  IF cached.analysis # None
        THEN [symbol |-> symbol, result |-> cached.analysis, cache |-> cached.cache,
              fresh |-> FALSE]
        ELSE IF outcome = 0
        THEN [symbol |-> symbol, result |-> None, cache |-> cached.cache, fresh |-> TRUE]
        ELSE IF is_valid_opportunity(UnifiedOutcome(symbol, outcome))
        THEN [symbol |-> symbol, result |-> UnifiedOutcome(symbol, outcome),
              cache |-> cache_analysis(cached.cache, symbol,
                                       UnifiedOutcome(symbol, outcome), t),
              fresh |-> TRUE]
        ELSE [symbol |-> symbol, result |-> None, cache |-> cached.cache, fresh |-> TRUE]

\* asyncio.gather(*analysis_tasks, return_exceptions=True): the units run
\* one after the other in the order of their creation, each to its end.
RECURSIVE Gather(_, _, _, _)
Gather(units, outcomes, cache, t) ==
    IF units = <<>> THEN [results |-> <<>>, cache |-> cache]
    ELSE LET unit == analyze_symbol_complete(cache, Head(units).symbol,
                                             outcomes[Head(units).symbol], t)
             rest == Gather(Tail(units), outcomes, unit.cache, t)
         IN  [results |-> <<[symbol |-> unit.symbol, result |-> unit.result,
                             fresh |-> unit.fresh]>> \o rest.results,
              cache |-> rest.cache]

\* A collection that stops at the first unit without a result.
CollectedUntilFailure(results) ==
    LET bad == {i \in DOMAIN results : results[i].result = None}
        n == IF bad = {} THEN Len(results)
             ELSE (CHOOSE i \in bad : \A j \in bad : i <= j) - 1
    IN  [i \in 1..n |-> results[i].result]

\* if result and result.get('total_score', 0) > 0: opportunities.append
Collected(results) ==
    LET kept == SelectSeq(results,
                    LAMBDA r : r.result # None /\ r.result.total_score > 0)
    IN  [i \in DOMAIN kept |-> kept[i].result]

RECURSIVE InsertByScore(_, _)
InsertByScore(sorted, x) ==
    IF sorted = <<>> THEN <<x>>
    ELSE IF Head(sorted).total_score >= x.total_score
         THEN <<Head(sorted)>> \o InsertByScore(Tail(sorted), x)
         ELSE <<x>> \o sorted

\* The opportunities left in the order of the units.
ArrivalOrder(s) == s

\* opportunities.sort(key=total_score, reverse=True)
RECURSIVE SortByScore(_)
SortByScore(s) ==
    IF s = <<>> THEN <<>>
    ELSE InsertByScore(SortByScore(SubSeq(s, 1, Len(s) - 1)), s[Len(s)])

Min(a, b) == IF a < b THEN a ELSE b

\* A selection that returns everything that was collected.
return_all_opportunities(opportunities) == opportunities

\* _filter_top_opportunities
filter_top_opportunities(opportunities) ==
    LET strong_signals ==
            SelectSeq(opportunities, LAMBDA op : op.confidence_level = "FUERTE")
        high_signals == SelectSeq(opportunities, LAMBDA op : op.confidence_level = "ALTO")
        medium_signals ==
            SelectSeq(opportunities, LAMBDA op : op.confidence_level = "MEDIO")
        top1 == Take(strong_signals, MaxStrongTop)
        slots1 == TARGET_DAILY_SIGNALS - Len(top1)
        top2 == IF slots1 > 0 THEN top1 \o Take(high_signals, Min(MaxHighTop, slots1))
                ELSE top1
        slots2 == TARGET_DAILY_SIGNALS - Len(top2)
        high_medium_signals ==
            SelectSeq(medium_signals, LAMBDA op : op.total_score >= MediumTopScore)
        top3 == IF slots2 > 0 THEN top2 \o Take(high_medium_signals, slots2) ELSE top2
    IN  Take(top3, TARGET_DAILY_SIGNALS + TopMargin)

\* The latest run of the analysers per symbol: its time, its result, and
\* whether the cache was cleared since.
Remember(history, results, t) ==
    LET ran == {results[i].symbol : i \in {j \in DOMAIN results : results[j].fresh}}
    IN  [s \in DOMAIN history \cup ran |->
            IF s \in ran
            THEN [time |-> t,
                  result |-> (CHOOSE r \in Range(results) : r.symbol = s /\ r.fresh).result,
                  cleared |-> FALSE]
            ELSE history[s]]

\* A market of six liquid symbols, and what their analyses may give: each
\* of the first three a STRONG, a HIGH, a MEDIUM of 66 or a MEDIUM of 55
\* signal or a failed unification; the last three a STRONG signal each or
\* a failed unification each.
WideSymbols == <<"AUSDT", "BUSDT", "CUSDT", "DUSDT", "EUSDT", "FUSDT">>
WideMarket == [i \in DOMAIN WideSymbols |-> [symbol |-> WideSymbols[i], data |-> FullData]]
WideAnalyses == {1, 2, 3, 10, UnifyFailed}
WideOutcomes ==
    {o \in [Range(WideSymbols) -> WideAnalyses] :
        /\ o["DUSDT"] \in {1, UnifyFailed}
        /\ o["EUSDT"] = o["DUSDT"]
        /\ o["FUSDT"] = o["DUSDT"]}

MaxAnalyses == 2
MaxNow == 400
TickSteps == {100, 200}

\* detect_momentum_opportunities(market_data) up to its await of
\* asyncio.gather, and the units it waits for, each run to its end; cycle
\* keeps the record of the call: its units, what was collected and
\* returned, and the latest analyser runs before and after it. A call
\* without units does not wait and goes on to its end in the same step.
detect_momentum_opportunities(market_data, outcomes) ==
    LET units == SelectSeq(market_data,
                     LAMBDA e : should_analyze_symbol(e.symbol, e.data))
        gathered == Gather(units, outcomes, symbol_cache, now)
    IN  /\ cycle.pc = "idle"
        /\ cycle.started < MaxAnalyses
        /\ symbol_cache' = gathered.cache
        /\ analysis_count' = IF units = <<>> THEN analysis_count + 1
                             ELSE analysis_count
        /\ cycle' = [pc |-> IF units = <<>> THEN "idle" ELSE "gathered",
                     started |-> cycle.started + 1,
                     time |-> now, market_data |-> market_data,
                     units |-> gathered.results,
                     opportunities |-> <<>>,
                     returned |-> IF units = <<>> THEN filter_top_opportunities(<<>>)
                                  ELSE <<>>,
                     before |-> cycle.history,
                     history |-> Remember(cycle.history, gathered.results, now)]
        /\ UNCHANGED now
        /\ UNCHANGED <<genVars, colVars, botVars, bufVars, restVars>>

\* The call goes on once gather has the results of all units: they are
\* collected and sorted, the counter advanced, the best returned.
gather_returns ==
    LET opportunities == SortByScore(Collected(cycle.units))
    IN  /\ cycle.pc = "gathered"
        /\ analysis_count' = analysis_count + 1
        /\ cycle' = [cycle EXCEPT
                         !.pc = "idle",
                         !.opportunities = opportunities,
                         !.returned = filter_top_opportunities(opportunities)]
        /\ UNCHANGED <<now, symbol_cache>>
        /\ UNCHANGED <<genVars, colVars, botVars, bufVars, restVars>>

\* force_analysis_refresh: the cache is emptied.
force_analysis_refresh ==
    /\ symbol_cache' = <<>>
    /\ cycle' = [cycle EXCEPT !.history =
                     [s \in DOMAIN @ |-> [@[s] EXCEPT !.cleared = TRUE]]]
    /\ UNCHANGED <<now, analysis_count>>
    /\ UNCHANGED <<genVars, colVars, botVars, bufVars, restVars>>

\* Time passes.
DetTick(d) ==
    /\ now + d <= MaxNow
    /\ now' = now + d
    /\ UNCHANGED <<symbol_cache, cycle, analysis_count>>
    /\ UNCHANGED <<genVars, colVars, botVars, bufVars, restVars>>

-----------------------------------------------------------------------------
(* The analysis units of a cycle under asyncio.Semaphore(10):              *)
(* MomentumDetector._analyze_symbol_with_semaphore                         *)

SemaphoreSlots == 10
MaxUnits == 11
UnitCounts == {MaxUnits - 1, MaxUnits}

\* Semaphore.acquire without waiting: the value is positive and nobody
\* waits.
CanAcquire(sem) == sem.value > 0 /\ sem.waiters = <<>>

\* A release that forgets the slot of a unit that raised.
ReleaseOnSuccess(sem, raised) ==
    IF raised THEN sem ELSE [sem EXCEPT !.value = @ + 1]

\* async with semaphore, __aexit__: the slot is given back, whether the
\* body returned or raised.
Release(sem, raised) == [sem EXCEPT !.value = @ + 1]

\* detect_momentum_opportunities: semaphore = asyncio.Semaphore(10) and one
\* unit per symbol that passed the filter, n of them, handed to gather.
CreateUnits(n) ==
    /\ analysis_tasks = <<>>
    /\ semaphore' = [value |-> SemaphoreSlots, waiters |-> <<>>]
    /\ analysis_tasks' = [i \in 1..n |-> "created"]
    /\ UNCHANGED notSemVars

\* A unit starts (the units start in the order of their creation) and
\* reaches async with semaphore: it takes a slot or joins the waiters.
UnitEnter(i) ==
    /\ analysis_tasks[i] = "created"
    /\ \A j \in 1..(i - 1) : analysis_tasks[j] # "created"
    /\ IF CanAcquire(semaphore)
       THEN /\ semaphore' = [semaphore EXCEPT !.value = @ - 1]
            /\ analysis_tasks' = [analysis_tasks EXCEPT ![i] = "running"]
       ELSE /\ semaphore' = [semaphore EXCEPT !.waiters = Append(@, i)]
            /\ analysis_tasks' = [analysis_tasks EXCEPT ![i] = "waiting"]
    /\ UNCHANGED notSemVars

\* The first waiter is woken by a release and takes the slot.
UnitWake(i) ==
    /\ analysis_tasks[i] = "waiting"
    /\ semaphore.waiters # <<>> /\ Head(semaphore.waiters) = i
    /\ semaphore.value > 0
    /\ semaphore' = [value |-> semaphore.value - 1, waiters |-> Tail(semaphore.waiters)]
    /\ analysis_tasks' = [analysis_tasks EXCEPT ![i] = "running"]
    /\ UNCHANGED notSemVars

\* analyze_symbol_complete returns or raises and the unit leaves the
\* async with block.
UnitLeave(i, raised) ==
    /\ analysis_tasks[i] = "running"
    /\ semaphore' = Release(semaphore, raised)
    /\ analysis_tasks' = [analysis_tasks EXCEPT ![i] = "done"]
    /\ UNCHANGED notSemVars

-----------------------------------------------------------------------------
(* The pacing of CryptoMomentumBot._main_analysis_loop: main.py            *)

UPDATE_INTERVAL == 30
ErrorPause == 5
MaxSchedTime == 90

\* How long a cycle takes, in seconds.
Durations == {0, 10, 30, 40}

Max(a, b) == IF a > b THEN a ELSE b

\* A pause computed without the floor at zero.
cycle_sleep_unfloored(ending, cycle_duration) ==
    IF ending = "no_data" THEN UPDATE_INTERVAL
    ELSE IF ending = "raised" THEN ErrorPause
    ELSE UPDATE_INTERVAL - cycle_duration

\* The argument of the asyncio.sleep that follows the cycle.
cycle_sleep(ending, cycle_duration) ==
    IF ending = "no_data" THEN UPDATE_INTERVAL
    ELSE IF ending = "raised" THEN ErrorPause
    ELSE Max(0, UPDATE_INTERVAL - cycle_duration)

\* while self.running: a cycle starts (cycle_start = datetime.now()) or
\* the loop ends.
SchedCheck ==
    /\ scheduler.pc = "check"
    /\ scheduler.time <= MaxSchedTime
    /\ scheduler' =
          IF scheduler.running
          THEN [scheduler EXCEPT !.pc = "cycle", !.cycle_start = scheduler.time,
                                 !.in_progress = @ + 1, !.started = @ + 1]
          ELSE [scheduler EXCEPT !.pc = "finished"]
    /\ UNCHANGED notSchedVars

\* The body of the cycle runs for cycle_duration seconds and the loop goes
\* to sleep.
SchedCycleEnd(ending, cycle_duration) ==
    /\ scheduler.pc = "cycle"
    /\ scheduler' =
          [scheduler EXCEPT
              !.pc = "sleeping",
              !.time = @ + cycle_duration,
              !.in_progress = @ - 1,
              !.last = [start |-> scheduler.cycle_start,
                        end |-> scheduler.time + cycle_duration,
                        ending |-> ending,
                        sleep |-> cycle_sleep(ending, cycle_duration)]]
    /\ UNCHANGED notSchedVars

\* The sleep is over.
SchedWake ==
    /\ scheduler.pc = "sleeping"
    /\ scheduler' = [scheduler EXCEPT !.pc = "check",
                                      !.time = scheduler.last.end + scheduler.last.sleep]
    /\ UNCHANGED notSchedVars

\* self.running = False (the signal handler or stop()).
SchedStop ==
    /\ scheduler.running
    /\ scheduler' = [scheduler EXCEPT !.running = FALSE]
    /\ UNCHANGED notSchedVars

-----------------------------------------------------------------------------
(* SignalAveraging, the per-symbol windows of past analyses:               *)
(* utils/signal_averaging.py                                               *)

window_size == 10
NoMaxlen == 0
MaxAgeHours == 24
AvgSteps == {12}
MaxAvgNow == 24
MaxAdded == 11

\* The symbol whose numeric analyses are added, and the symbols the
\* strategy's own analysis is added for.
AvgSymbols == {"AUSDT"}
StrategySymbols == {"AUSDT", "BUSDT"}

\* The analyses the trend is tried on.
TrendAnalyses ==
    { [momentum_score |-> 10, confidence_level |-> "Debil"],
      [momentum_score |-> 70, confidence_level |-> "Alto"] }

\* collections.deque: its items and its maxlen (NoMaxlen for deque() built
\* without one).
Deque(items, maxlen) == [items |-> items, maxlen |-> maxlen]

LastItems(items, n) ==
    IF Len(items) <= n THEN items
    ELSE SubSeq(items, Len(items) - n + 1, Len(items))

\* deque(iterable, maxlen=n): the last n items are kept.
DequeFrom(items, maxlen) == Deque(LastItems(items, maxlen), maxlen)

\* deque.append: a full bounded deque drops its leftmost item.
DequeAppend(d, item) ==
    IF d.maxlen # NoMaxlen /\ Len(d.items) >= d.maxlen
    THEN [d EXCEPT !.items = Append(Tail(@), item)]
    ELSE [d EXCEPT !.items = Append(@, item)]

\* _save_history: every window written as a list.
SavedHistory(history) == [s \in DOMAIN history |-> history[s].items]

\* An analysis whose momentum_score is no number: the dict the momentum
\* strategy passes. float() of it raises TypeError, and the datetime among
\* its values is nothing json.dump can write.
NotANumber == -1

\* json.dump(serializable_history, f) on the file opened with 'w' writes
\* every window of every symbol: it raises at an entry it cannot write,
\* _save_history prints the error, and what is left is no JSON document.
Serializable(history) ==
    \A s \in DOMAIN history : \A i \in DOMAIN history[s].items :
        history[s].items[i].analysis.momentum_score # NotANumber

\* The momentum_score entries of a list of window entries, and their sum.
Scores(entries) == [i \in DOMAIN entries |-> entries[i].analysis.momentum_score]

\* The sum of scores[lo..hi], by halves.
RECURSIVE SumRange(_, _, _)
SumRange(scores, lo, hi) ==
    IF lo > hi THEN 0
    ELSE IF lo = hi THEN scores[lo]
    ELSE LET mid == (lo + hi) \div 2
         IN  SumRange(scores, lo, mid) + SumRange(scores, mid + 1, hi)

SumScores(scores) == SumRange(scores, 1, Len(scores))

\* Counter(values).most_common(1): the most frequent value, the one seen
\* first among equals.
most_common(values) ==
    LET count(v) == Cardinality({i \in DOMAIN values : values[i] = v})
        first(v) == CHOOSE i \in DOMAIN values :
                        values[i] = v /\ \A j \in 1..(i - 1) : values[j] # v
        best == CHOOSE i \in DOMAIN values :
                    \A j \in DOMAIN values :
                        \/ count(values[i]) > count(values[j])
                        \/ /\ count(values[i]) = count(values[j])
                           /\ first(values[i]) <= first(values[j])
    IN  values[best]

\* round(sum(values) / len(values), 2) in hundredths: the hundredth nearest
\* to the double; when the exact mean lies halfway between two hundredths
\* the double's error decides, and a double that is the halfway value
\* itself goes to the even hundredth.
rounded_mean(total, count) ==
    LET q == (200 * total) \div (2 * count)
        rem == (200 * total) % (2 * count)
        e == float_error(total, count)
    IN  IF rem < count THEN q
        ELSE IF rem > count THEN q + 1
        ELSE IF e.c > 0 THEN q + 1
        ELSE IF e.c < 0 THEN q
        ELSE IF q % 2 = 0 THEN q ELSE q + 1

\* _calculate_average raises on a window with such an entry.
average_raises(entries) ==
    \E i \in DOMAIN entries : entries[i].analysis.momentum_score = NotANumber

\* _calculate_average on a window with entries: momentum_score is the mean
\* momentum score rounded to two decimals, here in hundredths
\* (momentum_total / history_count is the exact mean); the confidence
\* level, first set to the most frequent one, is set again from the
\* rounded mean.
calculate_average(entries) ==
    LET total == SumScores(Scores(entries))
        n == Len(entries)
        avg_score == rounded_mean(total, n)
        averaged == [momentum_total |-> total, history_count |-> n,
                     momentum_score |-> avg_score,
                     confidence_level |->
                         most_common([i \in DOMAIN entries |->
                                         entries[i].analysis.confidence_level])]
    IN  [averaged EXCEPT !.confidence_level =
            IF avg_score >= 8000 THEN "Fuerte"
            ELSE IF avg_score >= 6500 THEN "Alto"
            ELSE IF avg_score >= 5000 THEN "Medio"
            ELSE "Debil"]

\* _calculate_trend: the float mean of the newer half of the window minus
\* the float mean of the older half, compared with 5 and 15. change / unit
\* is the exact difference of the two means; where it is 5 or 15 the sign
\* and size of noise, the difference of the errors of the two float means
\* in units of 2^-MantissaBits (times unit * 2^ExponentOffset), decide
\* whether the float difference is above the threshold: it is when the
\* noise exceeds half the gap between the threshold and the next double
\* (a gap of 4 units at 5, of 8 units at 15).
calculate_trend(entries) ==
    IF Len(entries) < 2
    THEN [direction |-> "neutral", strength |-> "unknown"]
    ELSE LET half == Len(entries) \div 2
             older == SumScores(Scores(SubSeq(entries, 1, half)))
             recent == SumScores(Scores(SubSeq(entries, half + 1, Len(entries))))
             n_recent == Len(entries) - half
             \* momentum_change * half * n_recent
             change == recent * half - older * n_recent
             unit == half * n_recent
             e_recent == float_error(recent, n_recent)
             e_older == float_error(older, half)
             noise == e_recent.c * Pow2(e_recent.k + ExponentOffset) * half
                        - e_older.c * Pow2(e_older.k + ExponentOffset) * n_recent
             ulp == unit * Pow2(ExponentOffset)
             above(threshold, half_gap) ==
                 \/ change > threshold * unit
                 \/ change = threshold * unit /\ noise > half_gap * ulp
             below(threshold, half_gap) ==
                 \/ change < -threshold * unit
                 \/ change = -threshold * unit /\ -noise > half_gap * ulp
         IN  IF above(5, 2)
             THEN [direction |-> "strengthening",
                   strength |-> IF above(15, 4) THEN "strong" ELSE "moderate"]
             ELSE IF below(5, 2)
             THEN [direction |-> "weakening",
                   strength |-> IF below(15, 4) THEN "strong" ELSE "moderate"]
             ELSE [direction |-> "stable", strength |-> "minimal"]

\* add_signal(symbol, analysis): the window is created on first use and the
\* timestamped analysis appended. _calculate_average then raises when an
\* entry of the window carries no number, and the call ends there: the
\* entry stays in the window, current_averages and the file are as before.
\* Otherwise the average and the trend are computed and kept in
\* current_averages, and _save_history writes the file: the windows of all
\* symbols, or, when one of them holds an entry json.dump cannot write, a
\* truncated file (file_valid is FALSE).
add_signal(symbol, analysis) ==
    /\ averaging.added < MaxAdded
    /\ LET h0 == averaging.signal_history
           h1 == [s \in DOMAIN h0 \cup {symbol} |->
                     IF s \in DOMAIN h0 THEN h0[s] ELSE Deque(<<>>, window_size)]
           entry == [timestamp |-> averaging.now, analysis |-> analysis]
           h2 == [h1 EXCEPT ![symbol] = DequeAppend(@, entry)]
           result == [averaged_signal |-> calculate_average(h2[symbol].items),
                      trend |-> calculate_trend(h2[symbol].items),
                      history_count |-> Len(h2[symbol].items)]
           a0 == averaging.current_averages
       IN  IF average_raises(h2[symbol].items)
           THEN averaging' = [averaging EXCEPT
                   !.signal_history = h2,
                   !.raised = @ + 1,
                   !.added = @ + 1]
           ELSE averaging' = [averaging EXCEPT
                   !.signal_history = h2,
                   !.current_averages =
                       [s \in DOMAIN a0 \cup {symbol} |->
                           IF s = symbol THEN result ELSE a0[s]],
                   !.history_file =
                       IF Serializable(h2) THEN SavedHistory(h2) ELSE << >>,
                   !.file_exists = TRUE,
                   !.file_valid = Serializable(h2),
                   !.added = @ + 1]
    /\ UNCHANGED notAvgVars

\* get_trend_summary: {} when there is no current average; otherwise the
\* directions of the current averages are counted in a dict whose keys are
\* strengthening, weakening, stable and total_signals, and a direction that
\* is no key of it raises KeyError.
get_trend_summary(current_averages) ==
    LET counted == {"strengthening", "weakening", "stable"}
        count(direction) ==
            Cardinality({s \in DOMAIN current_averages :
                            current_averages[s].trend.direction = direction})
    IN  IF DOMAIN current_averages = {}
        THEN [raised |-> FALSE, empty |-> TRUE, strengthening |-> 0,
              weakening |-> 0, stable |-> 0, total_signals |-> 0]
        ELSE IF \E s \in DOMAIN current_averages :
                   current_averages[s].trend.direction \notin counted
        THEN [raised |-> TRUE, empty |-> FALSE, strengthening |-> 0,
              weakening |-> 0, stable |-> 0, total_signals |-> 0]
        ELSE [raised |-> FALSE, empty |-> FALSE,
              strengthening |-> count("strengthening"),
              weakening |-> count("weakening"),
              stable |-> count("stable"),
              total_signals |-> Cardinality(DOMAIN current_averages)]

\* The entries of a window younger than the cutoff.
Recent(d, cutoff_time) == SelectSeq(d.items, LAMBDA e : e.timestamp > cutoff_time)

\* cleanup_old_signals(max_age_hours=24): each window is replaced by a
\* new deque() of its recent entries, and removed, with its entry of
\* current_averages, when none is recent.
cleanup_old_signals ==
    /\ LET h0 == averaging.signal_history
           cutoff_time == averaging.now - MaxAgeHours
           kept == {s \in DOMAIN h0 : Recent(h0[s], cutoff_time) # <<>>}
           a0 == averaging.current_averages
       IN  averaging' = [averaging EXCEPT
               !.signal_history =
                   [s \in kept |-> Deque(Recent(h0[s], cutoff_time), NoMaxlen)],
               !.current_averages =
                   [s \in DOMAIN a0 \ (DOMAIN h0 \ kept) |-> a0[s]]]
    /\ UNCHANGED notAvgVars

\* SignalAveraging(window_size=10) built again: current_averages starts
\* empty and _load_history reads the file, if there is one, into bounded
\* deques; json.load raises on a file that is no JSON document, and the
\* except branch leaves signal_history empty.
ReloadHistory ==
    /\ averaging' = [averaging EXCEPT
            !.signal_history =
                IF averaging.file_exists /\ averaging.file_valid
                THEN [s \in DOMAIN averaging.history_file |->
                         DequeFrom(averaging.history_file[s], window_size)]
                ELSE << >>,
            !.current_averages = << >>]
    /\ UNCHANGED notAvgVars

\* Hours pass.
AvgTick ==
    /\ \E step \in AvgSteps :
          /\ averaging.now + step <= MaxAvgNow
          /\ averaging' = [averaging EXCEPT !.now = @ + step]
    /\ UNCHANGED notAvgVars

-----------------------------------------------------------------------------
(* MassiveDataCollector: one shard's messages, the caches and the          *)
(* registered callbacks (data/data_fetcher.py)                             *)

MaxReceived == 4
MaxCallbacks == 2

\* symbol = stream_data.get('s') of a ticker message without 's': None.
NoSymbol == 0

\* A callback either returns or raises an Exception.
CallbackKinds == {"returns", "raises"}

\* What the shard may read. json: the text parses; envelope: it has 'stream'
\* and 'data'; stream: what the stream name contains; has_s: data has 's';
\* fields: the other fields read are there and convert; x: the candle is
\* closed; c: the last price of a ticker.
Message(json, envelope, stream, has_s, s, fields, x, c) ==
    [json |-> json, envelope |-> envelope, stream |-> stream, has_s |-> has_s,
     s |-> s, fields |-> fields, x |-> x, c |-> c]

Messages ==
    {Message(FALSE, FALSE, "none", FALSE, NoSymbol, FALSE, FALSE, 0),
     Message(TRUE, FALSE, "none", FALSE, NoSymbol, FALSE, FALSE, 0),
     Message(TRUE, TRUE, "depth", TRUE, 1, TRUE, FALSE, 0)}
    \cup {Message(TRUE, TRUE, "ticker", TRUE, s, fields, FALSE, 7) :
             s \in BufSymbols, fields \in BOOLEAN}
    \cup {Message(TRUE, TRUE, "ticker", FALSE, NoSymbol, TRUE, FALSE, 7)}
    \cup {Message(TRUE, TRUE, "kline", TRUE, 1, fields, x, 0) :
             fields \in BOOLEAN, x \in BOOLEAN}
    \cup {Message(TRUE, TRUE, "kline", FALSE, NoSymbol, TRUE, TRUE, 0)}

\* The outcome of a handler: the caches, the calls made to the callbacks,
\* and whether an exception leaves the handler.
Outcome(pd, tickers, calls, raised) ==
    [price_data |-> pd, tickers |-> tickers, calls |-> calls, raised |-> raised]

\* A notification that stops at the first callback that raises.
notify_until_raise(callbacks, data_type, symbol, data) ==
    LET stop == IF \E i \in DOMAIN callbacks : callbacks[i] = "raises"
                THEN CHOOSE i \in DOMAIN callbacks :
                        /\ callbacks[i] = "raises"
                        /\ \A j \in 1..(i - 1) : callbacks[j] # "raises"
                ELSE Len(callbacks)
    IN  [i \in 1..stop |->
            [callback |-> i, data_type |-> data_type, symbol |-> symbol, data |-> data]]

\* _notify_callbacks: every callback of the list is called in turn; what a
\* callback raises is logged inside the loop.
notify_callbacks(callbacks, data_type, symbol, data) ==
    [i \in DOMAIN callbacks |->
        [callback |-> i, data_type |-> data_type, symbol |-> symbol, data |-> data]]

\* _process_ticker_data: a missing or unconvertible field raises before
\* anything is written and is logged; otherwise the symbol's ticker is
\* replaced and the callbacks are notified.
process_ticker_data(d, symbol, message) ==
    IF ~message.fields
    THEN Outcome(d.price_data, d.tickers, <<>>, FALSE)
    ELSE LET processed_data == [symbol |-> symbol, price |-> message.c,
                                timestamp |-> d.received + 1]
         IN  Outcome(d.price_data,
                     [s \in DOMAIN d.tickers \cup {symbol} |->
                         IF s = symbol THEN processed_data ELSE d.tickers[s]],
                     notify_callbacks(d.data_callbacks, "ticker", symbol, processed_data),
                     FALSE)

\* _process_kline_data with the callbacks: an open candle returns at once, a
\* missing or unconvertible field raises before anything is written and is
\* logged; otherwise the candle is appended and the callbacks are notified.
process_kline_message(d, symbol, message) ==
    IF ~message.x \/ ~message.fields
    THEN Outcome(d.price_data, d.tickers, <<>>, FALSE)
    ELSE LET kline == [x |-> message.x, i |-> "1m",
                       t |-> NextOpenTime(d.price_data, symbol, "1m")]
             processed_kline ==
                 [symbol |-> symbol, timeframe |-> kline.i, open_time |-> kline.t]
         IN  Outcome(process_kline_data(d.price_data, symbol, kline),
                     d.tickers,
                     notify_callbacks(d.data_callbacks, "kline", symbol, processed_kline),
                     FALSE)

\* _process_websocket_message: invalid JSON and any other exception are
\* logged here; a message without 'stream' or 'data' is dropped; a ticker
\* stream reads the symbol with .get('s'), a kline stream with ['s'].
process_websocket_message(d, message) ==
    IF ~message.json \/ ~message.envelope
    THEN Outcome(d.price_data, d.tickers, <<>>, FALSE)
    ELSE IF message.stream = "ticker"
    THEN process_ticker_data(d, IF message.has_s THEN message.s ELSE NoSymbol, message)
    ELSE IF message.stream = "kline"
    THEN IF message.has_s
         THEN process_kline_message(d, message.s, message)
         ELSE Outcome(d.price_data, d.tickers, <<>>, FALSE)
    ELSE Outcome(d.price_data, d.tickers, <<>>, FALSE)

\* register_callback(callback)
register_callback(kind) ==
    /\ Len(dispatch.data_callbacks) < MaxCallbacks
    /\ dispatch' = [dispatch EXCEPT !.data_callbacks = Append(@, kind)]
    /\ UNCHANGED notMsgVars

\* async for message in websocket: await _process_websocket_message(...).
\* An exception that left the handler would end the connection and lead to
\* a reconnection after the retry delay.
ReceiveMessage(message) ==
    /\ dispatch.shard = "reading"
    /\ dispatch.received < MaxReceived
    /\ LET outcome == process_websocket_message(dispatch, message)
       IN  dispatch' = [dispatch EXCEPT
               !.price_data = outcome.price_data,
               !.tickers = outcome.tickers,
               !.notified = outcome.calls,
               !.message = message,
               !.received = @ + 1,
               !.shard = IF outcome.raised THEN "reconnecting" ELSE "reading"]
    /\ UNCHANGED notMsgVars

\* The exchange closes the connection: ConnectionClosed is caught by the
\* connection loop.
ConnectionClosed ==
    /\ dispatch.shard = "reading"
    /\ dispatch' = [dispatch EXCEPT !.shard = "reconnecting"]
    /\ UNCHANGED notMsgVars

\* After the retry delay the loop connects again.
Reconnect ==
    /\ dispatch.shard = "reconnecting"
    /\ dispatch' = [dispatch EXCEPT !.shard = "reading"]
    /\ UNCHANGED notMsgVars

-----------------------------------------------------------------------------
(* One symbol's analysis in MomentumDetector.analyze_symbol_complete:      *)
(* the historical, technical and confluence sub-scores and their           *)
(* unification.  core/historical_analyzer.py, core/technical_analyzer.py,  *)
(* indicators/confluence_validator.py, core/signal_unifier.py              *)

HISTORICAL_MAX_SCORE == 25
TECHNICAL_MAX_SCORE == 50
CONFLUENCE_MAX_SCORE == 25
RSI_OVERSOLD == 25
RSI_OVERBOUGHT == 75
VOLUME_SPIKE_THRESHOLD == 30

RECURSIVE SumSeq(_)
SumSeq(s) == IF s = <<>> THEN 0 ELSE Head(s) + SumSeq(Tail(s))

(* ---- HistoricalAnalyzer ---- *)

\* averages: current_vs_average of each period with data, in percent.
score_price_averages(averages) ==
    SumSeq([i \in DOMAIN averages |->
               IF averages[i] > 5 THEN 3
               ELSE IF averages[i] > 2 THEN 2
               ELSE IF averages[i] > 0 THEN 1 ELSE 0])

\* peaks: [recent_peaks, avg_peak_height] of each period with data.
score_peaks_analysis(peaks) ==
    SumSeq([i \in DOMAIN peaks |->
               Min(peaks[i].recent_peaks * 2, 4)
                 + (IF peaks[i].avg_peak_height > 10 THEN 3
                    ELSE IF peaks[i].avg_peak_height > 5 THEN 2
                    ELSE IF peaks[i].avg_peak_height > 2 THEN 1 ELSE 0)])

\* patterns: [type, count] records.
score_momentum_patterns(patterns) ==
    SumSeq([i \in DOMAIN patterns |->
               CASE patterns[i].type = "sustained_rise" -> Min(patterns[i].count, 3)
                 [] patterns[i].type = "volume_breakout" -> Min(patterns[i].count * 2, 4)
                 [] patterns[i].type = "oversold_reversal" -> Min(patterns[i].count, 2)
                 [] OTHER -> 0])

calculate_historical_score(averages, peaks, patterns) ==
    Min(Min(score_price_averages(averages), 8)
          + Min(score_peaks_analysis(peaks), 10)
          + Min(score_momentum_patterns(patterns), 7),
        HISTORICAL_MAX_SCORE)

\* analyze_symbol_history: the result's historical_score and error entry;
\* an exception anywhere in it yields score 0 with the error.
analyze_symbol_history(data) ==
    IF data.raised
    THEN [historical_score |-> 0, error |-> "raised"]
    ELSE [historical_score |->
              calculate_historical_score(data.averages, data.peaks, data.patterns),
          error |-> ""]

PeakKinds ==
    { [recent_peaks |-> 0, avg_peak_height |-> 0],
      [recent_peaks |-> 1, avg_peak_height |-> 6],
      [recent_peaks |-> 3, avg_peak_height |-> 11] }

PatternCounts == {0, 5}

HistoricalInputs ==
    { [raised |-> TRUE, averages |-> <<>>, peaks |-> <<>>, patterns |-> <<>>] }
    \cup
    { [raised |-> FALSE, averages |-> a, peaks |-> p, patterns |-> m] :
        a \in UNION {[1..n -> {0, 6}] : n \in {0, 3}},
        p \in UNION {[1..n -> PeakKinds] : n \in {0, 2}},
        m \in {<<>>} \cup
              { << [type |-> "sustained_rise", count |-> x],
                   [type |-> "volume_breakout", count |-> y],
                   [type |-> "oversold_reversal", count |-> z] >> :
                  x \in PatternCounts, y \in PatternCounts, z \in PatternCounts } }

(* ---- TechnicalAnalyzer ---- *)

\* _analyze_rsi_momentum: its score and signals.
analyze_rsi_momentum(rsi) ==
    IF rsi.raised THEN [score |-> 0, signals |-> {}]
    ELSE LET zone == IF rsi.current_value > RSI_OVERSOLD /\ rsi.current_value < 50
                     THEN [score |-> 8, signals |-> {"oversold_recovery"}]
                     ELSE IF rsi.current_value >= 50 /\ rsi.current_value < RSI_OVERBOUGHT
                     THEN [score |-> 12, signals |-> {"bullish_zone"}]
                     ELSE IF rsi.current_value >= RSI_OVERBOUGHT
                     THEN [score |-> 6, signals |-> {"strong_momentum"}]
                     ELSE [score |-> 0, signals |-> {}]
             trend == IF rsi.bullish
                      THEN [score |-> 3, signals |-> {"bullish_trend"}]
                      ELSE [score |-> 0, signals |-> {}]
         IN  [score |-> Min(zone.score + trend.score, 15),
              signals |-> zone.signals \cup trend.signals]

\* _analyze_macd_momentum: its score and signals.
analyze_macd_momentum(macd) ==
    IF macd.raised THEN [score |-> 0, signals |-> {}]
    ELSE [score |->
              Min(8 * B2N(macd.above_signal)
                    + 4 * B2N(macd.above_signal /\ macd.histogram_positive)
                    + 8 * B2N(macd.recent_bullish_crossover)
                    + 3 * B2N(macd.line_positive)
                    + 5 * B2N(macd.bullish), 20),
          signals |->
              (IF macd.above_signal THEN {"macd_above_signal"} ELSE {})
              \cup (IF macd.above_signal /\ macd.histogram_positive
                    THEN {"histogram_positive"} ELSE {})
              \cup (IF macd.recent_bullish_crossover THEN {"bullish_crossover"} ELSE {})
              \cup (IF macd.line_positive THEN {"macd_positive"} ELSE {})
              \cup (IF macd.bullish THEN {"bullish_momentum"} ELSE {})]

\* _analyze_volume_momentum: its score and signals; ratio10 is ten times
\* current_volume / average_volume.
analyze_volume_momentum(volume) ==
    IF volume.raised THEN [score |-> 0, signals |-> {}]
    ELSE LET spike == IF volume.ratio10 >= 50
                      THEN [score |-> 15, signals |-> {"explosive_volume"}]
                      ELSE IF volume.ratio10 >= VOLUME_SPIKE_THRESHOLD
                      THEN [score |-> 12, signals |-> {"high_volume_spike"}]
                      ELSE IF volume.ratio10 >= 20
                      THEN [score |-> 8, signals |-> {"moderate_volume_spike"}]
                      ELSE IF volume.ratio10 >= 15
                      THEN [score |-> 4, signals |-> {"increased_volume"}]
                      ELSE [score |-> 0, signals |-> {}]
             trend == IF volume.increasing
                      THEN [score |-> 3, signals |-> {"volume_trend_up"}]
                      ELSE [score |-> 0, signals |-> {}]
         IN  [score |-> Min(spike.score + trend.score, 15),
              signals |-> spike.signals \cup trend.signals]

\* _identify_confluence_factors; every volume signal holds the word "volume".
identify_confluence_factors(rsi_result, macd_result, volume_result) ==
    (IF "bullish_zone" \in rsi_result.signals
        /\ "macd_above_signal" \in macd_result.signals
     THEN {"rsi_macd_bullish"} ELSE {})
    \cup (IF volume_result.signals # {}
             /\ ("bullish_crossover" \in macd_result.signals
                 \/ "bullish_zone" \in rsi_result.signals)
          THEN {"volume_momentum_confluence"} ELSE {})
    \cup (IF rsi_result.score > 8 /\ macd_result.score > 10 /\ volume_result.score > 8
          THEN {"triple_bullish_confluence"} ELSE {})
    \cup (IF "bullish_crossover" \in macd_result.signals
             /\ "explosive_volume" \in volume_result.signals
          THEN {"momentum_breakout"} ELSE {})

confluence_bonus(confluence_factors) ==
    5 * B2N("triple_bullish_confluence" \in confluence_factors)
      + 4 * B2N("momentum_breakout" \in confluence_factors)
      + 2 * B2N("rsi_macd_bullish" \in confluence_factors)
      + 2 * B2N("volume_momentum_confluence" \in confluence_factors)

\* The sum of the parts without the cap at TECHNICAL_MAX_SCORE.
calculate_technical_score_uncapped(rsi_result, macd_result, volume_result, factors) ==
    rsi_result.score + macd_result.score + volume_result.score
      + Min(confluence_bonus(factors), 10)

calculate_technical_score(rsi_result, macd_result, volume_result, factors) ==
    Min(rsi_result.score + macd_result.score + volume_result.score
          + Min(confluence_bonus(factors), 10),
        TECHNICAL_MAX_SCORE)

\* analyze_symbol_technicals: the result's technical_score and error entry.
analyze_symbol_technicals(data) ==
    IF data.raised THEN [technical_score |-> 0, error |-> "raised"]
    ELSE IF ~data.valid THEN [technical_score |-> 0, error |-> "insufficient"]
    ELSE LET rsi_result == analyze_rsi_momentum(data.rsi)
             macd_result == analyze_macd_momentum(data.macd)
             volume_result == analyze_volume_momentum(data.volume)
         IN  [technical_score |->
                  calculate_technical_score(rsi_result, macd_result, volume_result,
                      identify_confluence_factors(rsi_result, macd_result,
                                                  volume_result)),
              error |-> ""]

RsiInputs ==
    { [raised |-> TRUE, current_value |-> 50, bullish |-> FALSE] }
    \cup { [raised |-> FALSE, current_value |-> v, bullish |-> b] :
             v \in {20, 40, 60, 80}, b \in BOOLEAN }

MacdInputs ==
    { [raised |-> TRUE, above_signal |-> FALSE, histogram_positive |-> FALSE,
       recent_bullish_crossover |-> FALSE, line_positive |-> FALSE,
       bullish |-> FALSE] }
    \cup { [raised |-> FALSE, above_signal |-> a, histogram_positive |-> h,
            recent_bullish_crossover |-> c, line_positive |-> p, bullish |-> b] :
             a \in BOOLEAN, h \in BOOLEAN, c \in BOOLEAN, p \in BOOLEAN,
             b \in BOOLEAN }

VolumeInputs ==
    { [raised |-> TRUE, ratio10 |-> 10, increasing |-> FALSE] }
    \cup { [raised |-> FALSE, ratio10 |-> r, increasing |-> i] :
             r \in {10, 15, 20, 30, 60}, i \in BOOLEAN }

NoTechnicalData ==
    [rsi |-> CHOOSE r \in RsiInputs : r.raised,
     macd |-> CHOOSE m \in MacdInputs : m.raised,
     volume |-> CHOOSE v \in VolumeInputs : v.raised]

TechnicalInputs ==
    { [raised |-> TRUE, valid |-> FALSE, rsi |-> NoTechnicalData.rsi,
       macd |-> NoTechnicalData.macd, volume |-> NoTechnicalData.volume],
      [raised |-> FALSE, valid |-> FALSE, rsi |-> NoTechnicalData.rsi,
       macd |-> NoTechnicalData.macd, volume |-> NoTechnicalData.volume] }
    \cup { [raised |-> FALSE, valid |-> TRUE, rsi |-> r, macd |-> m, volume |-> v] :
             r \in RsiInputs, m \in MacdInputs, v \in VolumeInputs }

(* ---- ConfluenceValidator ---- *)

\* Ten times timeframe_weights of 5m, 15m, 1h, 4h.
timeframe_weights10 == <<10, 12, 15, 20>>

NoTimeframe == -99

\* The timeframes of TIMEFRAMES present in timeframe_data; momentum[k] is
\* the momentum_strength of timeframe k, -11..11, or NoTimeframe.
PresentTimeframes(momentum) == {k \in DOMAIN momentum : momentum[k] # NoTimeframe}

\* trend == 'BULLISH' in _analyze_timeframe_momentum
BullishTimeframes(momentum) == {k \in PresentTimeframes(momentum) : momentum[k] >= 7}

RECURSIVE SumOver(_, _)
SumOver(f, S) ==
    IF S = {} THEN 0
    ELSE LET k == CHOOSE x \in S : TRUE IN f[k] + SumOver(f, S \ {k})

\* min(int(avg_momentum * 0.6), 6) floored at zero.
strength_score(momentum) ==
    LET present == PresentTimeframes(momentum)
        total == SumOver(momentum, present)
    IN  IF present = {} \/ total <= 0 THEN 0
        ELSE Min((total * 6) \div (Cardinality(present) * 10), 6)

\* A score made of the count of bullish timeframes alone.
calculate_confluence_score_by_count(bullish_count, bullish_weight, total_weight, momentum) ==
    IF bullish_count >= 4 THEN 15
    ELSE IF bullish_count = 3 THEN 12
    ELSE IF bullish_count = 2 THEN 8
    ELSE IF bullish_count = 1 THEN 3 ELSE 0

\* _calculate_confluence_score; the ratio is bullish_weight / total_weight.
calculate_confluence_score(bullish_count, bullish_weight, total_weight, momentum) ==
    LET timeframe_score ==
            IF bullish_count >= 4 THEN 15
            ELSE IF bullish_count = 3 THEN 12
            ELSE IF bullish_count = 2 THEN 8
            ELSE IF bullish_count = 1 THEN 3 ELSE 0
        consistency_score ==
            IF total_weight = 0 THEN 0
            ELSE IF 100 * bullish_weight >= 90 * total_weight THEN 4
            ELSE IF 100 * bullish_weight >= 75 * total_weight THEN 3
            ELSE IF 100 * bullish_weight >= 60 * total_weight THEN 2
            ELSE IF 100 * bullish_weight >= 50 * total_weight THEN 1 ELSE 0
    IN  Min(timeframe_score + strength_score(momentum) + consistency_score,
            CONFLUENCE_MAX_SCORE)

\* validate_multi_timeframe_confluence: the result's confluence_score and
\* error entry.
validate_multi_timeframe_confluence(data) ==
    IF data.raised THEN [confluence_score |-> 0, error |-> "raised"]
    ELSE [confluence_score |->
              calculate_confluence_score(
                  Cardinality(BullishTimeframes(data.momentum)),
                  SumOver(timeframe_weights10, BullishTimeframes(data.momentum)),
                  SumOver(timeframe_weights10, PresentTimeframes(data.momentum)),
                  data.momentum),
          error |-> ""]

MomentumLevels == {NoTimeframe, -4, 8, 11}

ConfluenceInputs ==
    { [raised |-> TRUE, momentum |-> [k \in 1..4 |-> NoTimeframe]] }
    \cup { [raised |-> FALSE, momentum |-> m] : m \in [1..4 -> MomentumLevels] }

(* ---- SignalUnifier ---- *)

\* A total that leaves the confluence sub-score out.
calculate_total_score_without_confluence(historical, technical, confluence) ==
    Min(Max(historical.historical_score + technical.technical_score, 0), 100)

calculate_total_score(historical, technical, confluence) ==
    Min(Max(historical.historical_score + technical.technical_score
              + confluence.confluence_score, 0), 100)

\* CONFIDENCE_LEVELS, in the order of the dict.
CONFIDENCE_LEVELS ==
    << [level |-> "FUERTE", min_score |-> 85, max_score |-> 100],
       [level |-> "ALTO", min_score |-> 70, max_score |-> 84],
       [level |-> "MEDIO", min_score |-> 50, max_score |-> 69],
       [level |-> "DEBIL", min_score |-> 30, max_score |-> 49] >>

\* The bands tested with their lower ends shifted up by one.
classify_confidence_level_shifted(total_score) ==
    LET hits == {i \in DOMAIN CONFIDENCE_LEVELS :
                    /\ CONFIDENCE_LEVELS[i].min_score < total_score
                    /\ total_score <= CONFIDENCE_LEVELS[i].max_score}
    IN  IF hits = {} THEN "DEBIL"
        ELSE CONFIDENCE_LEVELS[CHOOSE i \in hits : \A j \in hits : i <= j].level

\* The first level of CONFIDENCE_LEVELS whose band holds the score, and
\* DEBIL when none does.
classify_confidence_level(total_score) ==
    LET hits == {i \in DOMAIN CONFIDENCE_LEVELS :
                    /\ CONFIDENCE_LEVELS[i].min_score <= total_score
                    /\ total_score <= CONFIDENCE_LEVELS[i].max_score}
    IN  IF hits = {} THEN "DEBIL"
        ELSE CONFIDENCE_LEVELS[CHOOSE i \in hits : \A j \in hits : i <= j].level

determine_signal_strength(total_score, historical, technical, confluence) ==
    IF total_score >= 85
    THEN IF historical.historical_score >= 15 /\ technical.technical_score >= 35
            /\ confluence.confluence_score >= 18
         THEN "VERY_STRONG" ELSE "STRONG"
    ELSE IF total_score >= 70
    THEN IF technical.technical_score >= 25 /\ confluence.confluence_score >= 15
         THEN "STRONG" ELSE "MODERATE"
    ELSE IF total_score >= 50 THEN "MODERATE"
    ELSE IF total_score >= 30 THEN "WEAK"
    ELSE "VERY_WEAK"

\* A lookup on the tier and the strength that leaves the score out.
generate_recommendation_by_tier(confidence_level, signal_strength, total_score) ==
    IF confidence_level = "FUERTE" /\ signal_strength \in {"VERY_STRONG", "STRONG"}
    THEN "STRONG_BUY"
    ELSE IF confidence_level \in {"FUERTE", "ALTO"}
            /\ signal_strength \in {"STRONG", "MODERATE"}
    THEN "BUY"
    ELSE IF confidence_level \in {"ALTO", "MEDIO"} THEN "WEAK_BUY"
    ELSE "HOLD"

generate_recommendation(confidence_level, signal_strength, total_score) ==
    IF confidence_level = "FUERTE" /\ signal_strength \in {"VERY_STRONG", "STRONG"}
    THEN "STRONG_BUY"
    ELSE IF confidence_level \in {"FUERTE", "ALTO"}
            /\ signal_strength \in {"STRONG", "MODERATE"}
    THEN "BUY"
    ELSE IF confidence_level \in {"ALTO", "MEDIO"} /\ total_score >= 60
    THEN "WEAK_BUY"
    ELSE IF confidence_level = "MEDIO" /\ total_score >= 50 THEN "WATCH"
    ELSE "HOLD"

\* unify_signals on three analyzer results: the analyzers return integer
\* scores, with which no step of it raises.
unify_signals(symbol, historical_result, technical_result, confluence_result) ==
    LET total_score ==
            calculate_total_score(historical_result, technical_result,
                                  confluence_result)
        confidence_level == classify_confidence_level(total_score)
        signal_strength ==
            determine_signal_strength(total_score, historical_result,
                                      technical_result, confluence_result)
    IN  [symbol |-> symbol,
         total_score |-> total_score,
         confidence_level |-> confidence_level,
         signal_strength |-> signal_strength,
         recommendation |->
             generate_recommendation(confidence_level, signal_strength, total_score),
         target_probability |->
             calculate_target_probability(total_score, historical_result,
                                          technical_result, confluence_result),
         components |-> [historical |-> historical_result,
                         technical |-> technical_result,
                         confluence |-> confluence_result]]

(* ---- analyze_symbol_complete, step by step ---- *)

\* The symbol the calls are made for.
ScoreSymbol == "AUSDT"

\* Before a call: no result yet, nothing returned.
NoAnalysis ==
    LET h == [historical_score |-> 0, error |-> ""]
        t == [technical_score |-> 0, error |-> ""]
        c == [confluence_score |-> 0, error |-> ""]
    IN  [pc |-> "call", historical_result |-> h, technical_result |-> t,
         confluence_result |-> c,
         unified_signal |-> unify_signals(ScoreSymbol, h, t, c),
         returned |-> None]

\* The call starts with the lookup in the cache: a fresh entry is returned
\* at once; otherwise an expired entry is deleted and the analysers run.
AnalysisCall ==
    /\ symbol_analysis.pc = "call"
    /\ LET cached == get_cached_analysis(symbol_cache, ScoreSymbol, now)
       IN  /\ symbol_cache' = cached.cache
           /\ symbol_analysis' =
                 IF cached.analysis # None
                 THEN [NoAnalysis EXCEPT !.returned = cached.analysis]
                 ELSE [NoAnalysis EXCEPT !.pc = "historical"]
    /\ UNCHANGED notScoreCacheVars

AnalyzeHistorical(data) ==
    /\ symbol_analysis.pc = "historical"
    /\ symbol_analysis' = [symbol_analysis EXCEPT !.pc = "technical",
                                    !.historical_result = analyze_symbol_history(data)]
    /\ UNCHANGED notScoreVars

AnalyzeTechnical(data) ==
    /\ symbol_analysis.pc = "technical"
    /\ symbol_analysis' = [symbol_analysis EXCEPT !.pc = "confluence",
                                    !.technical_result = analyze_symbol_technicals(data)]
    /\ UNCHANGED notScoreVars

AnalyzeConfluence(data) ==
    /\ symbol_analysis.pc = "confluence"
    /\ symbol_analysis' = [symbol_analysis EXCEPT
                       !.pc = "unify",
                       !.confluence_result = validate_multi_timeframe_confluence(data)]
    /\ UNCHANGED notScoreVars

Unify ==
    /\ symbol_analysis.pc = "unify"
    /\ symbol_analysis' = [symbol_analysis EXCEPT
                       !.pc = "done",
                       !.unified_signal =
                           unify_signals(ScoreSymbol,
                                         symbol_analysis.historical_result,
                                         symbol_analysis.technical_result,
                                         symbol_analysis.confluence_result)]
    /\ UNCHANGED notScoreVars

\* The call returns: a valid opportunity is stored in the cache and
\* returned, any other signal is dropped and None returned; the next call
\* starts from nothing.
AnalysisReturn ==
    /\ symbol_analysis.pc = "done"
    /\ LET unified_signal == symbol_analysis.unified_signal
       IN  IF is_valid_opportunity(unified_signal)
           THEN /\ symbol_cache' = cache_analysis(symbol_cache, ScoreSymbol,
                                                  unified_signal, now)
                /\ symbol_analysis' = [NoAnalysis EXCEPT !.returned = unified_signal]
           ELSE /\ symbol_cache' = symbol_cache
                /\ symbol_analysis' = NoAnalysis
    /\ UNCHANGED notScoreCacheVars

-----------------------------------------------------------------------------
(* TechnicalAnalyzer with the indicator classes of the repository          *)
(* (core/technical_analyzer.py, indicators/)                               *)

MinPricePoints == 50

\* The public methods of VolumeAnalyzer and of MACDSensitive, and the
\* methods of RSIOptimizer that are coroutine functions: calculate_rsi is
\* an ordinary method that returns a float or None.
VolumeAnalyzerMethods == {"analyze_volume_momentum", "get_volume_trend_analysis"}
MACDSensitiveMethods ==
    {"calculate_ema", "calculate_macd", "analyze_macd_momentum",
     "get_multi_timeframe_macd"}
RSIOptimizerCoroutines == {}

\* symbol_data as the market gives it: the number of price points, ten
\* times current volume / average volume, whether volume is rising, the
\* RSI of the prices and whether the MACD is bullish.
MarketInputs ==
    { [points |-> p, ratio10 |-> r, increasing |-> i, rsi |-> v, bullish |-> b] :
        p \in {MinPricePoints - 1, MinPricePoints, MinPricePoints + 10},
        r \in {10, 15, 20, 30, 50, 60}, i \in BOOLEAN, v \in {20, 40, 60, 80},
        b \in BOOLEAN }

\* await self.rsi_analyzer.calculate_rsi(price_data): awaiting what an
\* ordinary method returns raises TypeError.
calculate_rsi_call(symbol_data) ==
    IF "calculate_rsi" \in RSIOptimizerCoroutines
    THEN [raised |-> FALSE, current_value |-> symbol_data.rsi,
          bullish |-> symbol_data.bullish]
    ELSE [raised |-> TRUE, current_value |-> 50, bullish |-> FALSE]

\* await self.macd_analyzer.calculate_advanced_macd(price_data): a method
\* the class does not have raises AttributeError.
calculate_advanced_macd_call(symbol_data) ==
    IF "calculate_advanced_macd" \in MACDSensitiveMethods
    THEN [raised |-> FALSE, above_signal |-> symbol_data.bullish,
          histogram_positive |-> symbol_data.bullish,
          recent_bullish_crossover |-> FALSE, line_positive |-> symbol_data.bullish,
          bullish |-> symbol_data.bullish]
    ELSE [raised |-> TRUE, above_signal |-> FALSE, histogram_positive |-> FALSE,
          recent_bullish_crossover |-> FALSE, line_positive |-> FALSE,
          bullish |-> FALSE]

\* await self.volume_analyzer.analyze_volume_patterns(volume_data,
\* price_data): a method the class does not have raises AttributeError.
analyze_volume_patterns_call(symbol_data) ==
    IF "analyze_volume_patterns" \in VolumeAnalyzerMethods
    THEN [raised |-> FALSE, ratio10 |-> symbol_data.ratio10,
          increasing |-> symbol_data.increasing]
    ELSE [raised |-> TRUE, ratio10 |-> 10, increasing |-> FALSE]

\* What the analyzer's three indicator calls give for symbol_data.
IndicatorData(symbol_data) ==
    [raised |-> FALSE, valid |-> symbol_data.points >= MinPricePoints,
     rsi |-> calculate_rsi_call(symbol_data),
     macd |-> calculate_advanced_macd_call(symbol_data),
     volume |-> analyze_volume_patterns_call(symbol_data)]

NoTechnicalCall ==
    [pc |-> "idle", symbol_data |-> CHOOSE d \in MarketInputs : TRUE,
     volume_analysis |-> [score |-> 0, signals |-> {}],
     result |-> [technical_score |-> 0, error |-> ""]]

\* analyze_symbol_technicals(symbol, symbol_data) of a TechnicalAnalyzer
\* built by its constructor: result['volume_analysis'] stays empty when the
\* data is insufficient.
TechnicalCall(symbol_data) ==
    /\ technical_call.pc = "idle"
    /\ technical_call' =
           [pc |-> "returned", symbol_data |-> symbol_data,
            volume_analysis |->
                IF IndicatorData(symbol_data).valid
                THEN analyze_volume_momentum(IndicatorData(symbol_data).volume)
                ELSE [score |-> 0, signals |-> {}],
            result |-> analyze_symbol_technicals(IndicatorData(symbol_data))]
    /\ UNCHANGED notTechVars

\* The caller takes the result.
TechnicalReturn ==
    /\ technical_call.pc = "returned"
    /\ technical_call' = NoTechnicalCall
    /\ UNCHANGED notTechVars

-----------------------------------------------------------------------------
(* The read-only accessors of the presentation layer, run on the           *)
(* dashboard thread while _analyze_symbols_batch runs on the loop's        *)
(* thread (main.py, dashboard/web_dashboard_v2.py)                         *)

MaxBatches == 2
MaxReads == 2

\* What detect_momentum_opportunities may hand to a batch: lists without a
\* repeated symbol.
PresPool == {Unified("AUSDT", 1), Unified("BUSDT", 2), Unified("AUSDT", 3)}

\* Two lists that between them bring more FUERTE and ALTO symbols than
\* the daily list keeps.
ManySignals ==
    { <<Unified("AUSDT", 1), Unified("BUSDT", 2), Unified("CUSDT", 1),
        Unified("DUSDT", 2)>>,
      <<Unified("EUSDT", 1), Unified("FUSDT", 2), Unified("GUSDT", 1)>> }

PresLists ==
    {<<>>} \cup {<<a>> : a \in PresPool}
    \cup {<<p[1], p[2]>> : p \in {q \in PresPool \X PresPool : q[1].symbol # q[2].symbol}}
    \cup ManySignals

\* _update_top_opportunities keeps a total_score of 50 or more.
MinTopScore == 50

Accessors == {"get_bot_status", "_get_opportunities"}

\* self.current_opportunities[symbol] = opportunity on a dict kept in
\* insertion order: a known key keeps its place.
DictSet(d, opportunity) ==
    IF \E i \in DOMAIN d : d[i].symbol = opportunity.symbol
    THEN [i \in DOMAIN d |->
             IF d[i].symbol = opportunity.symbol THEN opportunity ELSE d[i]]
    ELSE Append(d, opportunity)

\* The value an accessor gives back. kind is "status", "opportunities" or
\* "error"; "raised" stands for an exception that leaves the accessor.
Response(kind, strong, high, current, daily, opportunities) ==
    [kind |-> kind, strong_signals |-> strong, high_signals |-> high,
     current_opportunities |-> current, daily_signals |-> daily,
     opportunities |-> opportunities]

NoResponse == Response("none", 0, 0, 0, 0, <<>>)

\* An accessor without its try/except: the RuntimeError leaves it.
iteration_error_raised(accessor) == Response("raised", 0, 0, 0, 0, <<>>)

\* except Exception: get_bot_status returns {'error': str(e)},
\* _get_opportunities returns [].
iteration_error(accessor) ==
    IF accessor = "get_bot_status" THEN Response("error", 0, 0, 0, 0, <<>>)
    ELSE Response("opportunities", 0, 0, 0, 0, <<>>)

\* An accessor on the dashboard thread. phase names where it is; used and
\* pos are those of its dict iterator; detached says that the dict it
\* iterates is no longer the one current_opportunities names, and view is
\* that dict.
IdleReader ==
    [pc |-> "idle", accessor |-> "get_bot_status", phase |-> "none", used |-> 0,
     pos |-> 0, strong |-> 0, high |-> 0, current |-> 0, opportunities |-> <<>>,
     detached |-> FALSE, view |-> <<>>, result |-> NoResponse]

\* sorting holds the items of daily_signals while list.sort works on them.
IdleBatch == [pc |-> "idle", opportunities |-> <<>>, pos |-> 0, sorting |-> <<>>]

\* _analyze_symbols_batch: detect_momentum_opportunities has returned.
BatchBegin(opportunities) ==
    /\ presentation.batch.pc = "idle"
    /\ presentation.batches < MaxBatches
    /\ presentation' = [presentation EXCEPT
           !.batch = [IdleBatch EXCEPT !.pc = "clear",
                                       !.opportunities = opportunities],
           !.batches = @ + 1]
    /\ UNCHANGED notPresVars

\* self.current_opportunities.clear()
BatchClear ==
    /\ presentation.batch.pc = "clear"
    /\ presentation' = [presentation EXCEPT
           !.current_opportunities = <<>>,
           !.batch.pc = IF presentation.batch.opportunities = <<>>
                        THEN "daily" ELSE "fill"]
    /\ UNCHANGED notPresVars

\* for opportunity in opportunities: self.current_opportunities[symbol] =
\* opportunity, one assignment at a time; after the last one the second
\* loop over the opportunities begins.
BatchInsert ==
    /\ presentation.batch.pc = "fill"
    /\ LET b == presentation.batch
           last == b.pos + 1 = Len(b.opportunities)
       IN  presentation' = [presentation EXCEPT
               !.current_opportunities = DictSet(@, b.opportunities[b.pos + 1]),
               !.batch.pos = IF last THEN 0 ELSE b.pos + 1,
               !.batch.pc = IF last THEN "daily" ELSE "fill"]
    /\ UNCHANGED notPresVars

\* The next opportunity of the second loop, after the first pos of them,
\* that is FUERTE or ALTO and whose symbol is not among the daily signals;
\* 0 when there is none.
NextDaily(batch, daily_signals) ==
    LET new == {i \in DOMAIN batch.opportunities :
                   /\ i > batch.pos
                   /\ batch.opportunities[i].confidence_level \in {"FUERTE", "ALTO"}
                   /\ \A j \in DOMAIN daily_signals :
                         daily_signals[j].symbol # batch.opportunities[i].symbol}
    IN  IF new = {} THEN 0 ELSE CHOOSE i \in new : \A j \in new : i <= j

\* self.daily_signals.append(opportunity), then the batch rests in
\* await mongodb_manager.save_signal(opportunity).
BatchAppend ==
    /\ presentation.batch.pc = "daily"
    /\ NextDaily(presentation.batch, presentation.daily_signals) # 0
    /\ LET k == NextDaily(presentation.batch, presentation.daily_signals)
       IN  presentation' = [presentation EXCEPT
               !.daily_signals = Append(@, presentation.batch.opportunities[k]),
               !.batch.pos = k,
               !.batch.pc = "saving"]
    /\ UNCHANGED notPresVars

\* save_signal returned, or raised and was logged: the loop goes on.
BatchSaved ==
    /\ presentation.batch.pc = "saving"
    /\ presentation' = [presentation EXCEPT !.batch.pc = "daily"]
    /\ UNCHANGED notPresVars

\* The second loop is over. With no more than TARGET_DAILY_SIGNALS * 2
\* daily signals _analyze_symbols_batch returns; with more,
\* self.daily_signals.sort(...) begins: list.sort takes the items out of
\* the list, which is empty to every reader while the sort calls the key
\* function.
BatchEnd ==
    /\ presentation.batch.pc = "daily"
    /\ NextDaily(presentation.batch, presentation.daily_signals) = 0
    /\ presentation' =
           IF Len(presentation.daily_signals) > TARGET_DAILY_SIGNALS * 2
           THEN [presentation EXCEPT
                    !.batch.sorting = presentation.daily_signals,
                    !.daily_signals = <<>>,
                    !.batch.pc = "sorting"]
           ELSE [presentation EXCEPT !.batch.pc = "update"]
    /\ UNCHANGED notPresVars

\* list.sort ends: the list holds its items again, by descending
\* total_score.
BatchSorted ==
    /\ presentation.batch.pc = "sorting"
    /\ presentation' = [presentation EXCEPT
           !.daily_signals = SortByScore(presentation.batch.sorting),
           !.batch.sorting = <<>>,
           !.batch.pc = "cut"]
    /\ UNCHANGED notPresVars

\* self.daily_signals = self.daily_signals[:TARGET_DAILY_SIGNALS * 2], and
\* _analyze_symbols_batch returns.
BatchCut ==
    /\ presentation.batch.pc = "cut"
    /\ presentation' = [presentation EXCEPT
           !.daily_signals = Take(@, TARGET_DAILY_SIGNALS * 2),
           !.batch.pc = "update"]
    /\ UNCHANGED notPresVars

\* _update_top_opportunities: nothing is done to an empty dict; otherwise
\* current_opportunities is bound to a new dict of the entries with a
\* total_score of 50 or more, and an iterator created before goes on over
\* the dict it was created on.
update_top_opportunities ==
    /\ presentation.batch.pc = "update"
    /\ LET d == presentation.current_opportunities
           r == presentation.reader
       IN  presentation' = [presentation EXCEPT
               !.current_opportunities =
                   SelectSeq(d, LAMBDA opp : opp.total_score >= MinTopScore),
               !.reader =
                   IF d # <<>> /\ r.pc = "iterating" /\ ~r.detached
                   THEN [r EXCEPT !.detached = TRUE, !.view = d]
                   ELSE r,
               !.batch = IdleBatch]
    /\ UNCHANGED notPresVars

\* The dashboard thread calls an accessor: the first iterator over the
\* dict is created and remembers the dict's size.
ReadBegin(accessor) ==
    /\ presentation.reader.pc = "idle"
    /\ presentation.reads < MaxReads
    /\ presentation' = [presentation EXCEPT
           !.reader = [IdleReader EXCEPT
               !.pc = "iterating", !.accessor = accessor,
               !.phase = IF accessor = "get_bot_status" THEN "strong" ELSE "items",
               !.used = Len(presentation.current_opportunities)],
           !.reads = @ + 1]
    /\ UNCHANGED notPresVars

\* One call of the iterator's next(): a dict whose size changed since the
\* iterator was created raises RuntimeError, which the accessor's except
\* branch turns into its error value; otherwise the next entry is taken,
\* or the iteration is over: get_bot_status has its count, and
\* _get_opportunities sorts what it collected and returns.
ReadStep ==
    /\ presentation.reader.pc = "iterating"
    /\ LET r == presentation.reader
           d == IF r.detached THEN r.view ELSE presentation.current_opportunities
       IN  presentation' = [presentation EXCEPT !.reader =
               IF Len(d) # r.used
               THEN [r EXCEPT !.pc = "returned", !.result = iteration_error(r.accessor)]
               ELSE IF r.pos < Len(d)
               THEN [r EXCEPT
                       !.pos = @ + 1,
                       !.strong = IF r.phase = "strong"
                                     /\ d[r.pos + 1].confidence_level = "FUERTE"
                                  THEN @ + 1 ELSE @,
                       !.high = IF r.phase = "high"
                                   /\ d[r.pos + 1].confidence_level = "ALTO"
                                THEN @ + 1 ELSE @,
                       !.opportunities =
                           IF r.phase = "items" /\ d[r.pos + 1].total_score > 0
                           THEN Append(@, d[r.pos + 1]) ELSE @]
               ELSE IF r.phase = "items"
               THEN [r EXCEPT !.pc = "returned", !.detached = FALSE, !.view = <<>>,
                              !.result = Response("opportunities", 0, 0, 0, 0,
                                             SortByScore(r.opportunities))]
               ELSE [r EXCEPT !.pc = "counted", !.detached = FALSE, !.view = <<>>]]
    /\ UNCHANGED notPresVars

\* get_bot_status after a comprehension: the iterator of the second
\* comprehension is created on the dict current_opportunities names now;
\* after the second, len(self.current_opportunities) is read.
ReadNext ==
    /\ presentation.reader.pc = "counted"
    /\ LET r == presentation.reader
           d == presentation.current_opportunities
       IN  presentation' = [presentation EXCEPT !.reader =
               IF r.phase = "strong"
               THEN [r EXCEPT !.pc = "iterating", !.phase = "high", !.pos = 0,
                              !.used = Len(d)]
               ELSE [r EXCEPT !.pc = "sized", !.current = Len(d)]]
    /\ UNCHANGED notPresVars

\* len(self.daily_signals) is read and the status is returned.
ReadDaily ==
    /\ presentation.reader.pc = "sized"
    /\ LET r == presentation.reader
       IN  presentation' = [presentation EXCEPT !.reader =
               [r EXCEPT !.pc = "returned",
                         !.result = Response("status", r.strong, r.high, r.current,
                                        Len(presentation.daily_signals), <<>>)]]
    /\ UNCHANGED notPresVars

\* The dashboard takes the value.
ReadReturn ==
    /\ presentation.reader.pc = "returned"
    /\ presentation' = [presentation EXCEPT !.reader = IdleReader]
    /\ UNCHANGED notPresVars

-----------------------------------------------------------------------------
(* One symbol from the collector's store (data/data_fetcher.py) through    *)
(* BinanceCollector.get_all_symbols_data (data/binance_collector.py) to    *)
(* the detector's filter (core/momentum_detector.py)                       *)

MaxStored == 50
MinKlines == 20

FeedSymbol == "AUSDT"

\* The kline streams the collector subscribes to, and so the timeframes a
\* stored candle can have.
CollectorTimeframes == {"1m", "5m", "15m"}

\* required_timeframes of _should_include_symbol.
RequiredTimeframes == {"1m", "5m", "15m", "1h"}

\* config.parameters.TIMEFRAMES
TIMEFRAMES == {"5m", "15m", "1h", "4h"}

\* The keys of the ticker _process_ticker_data stores.
TickerKeys ==
    {"symbol", "price", "price_change", "volume_24h", "volume_change",
     "high_24h", "low_24h", "bid_price", "ask_price", "timestamp"}

TickerPrices == {1000}
TickerVolumes == {500000, 2000000}

NoStore == [has_ticker |-> FALSE, price |-> 0, volume_24h |-> 0,
            klines |-> [tf \in CollectorTimeframes |-> 0]]

\* ticker.get(key, default) on symbol_data.get('ticker', {}).
ticker_get(symbol_data, key, default) ==
    IF symbol_data.has_ticker /\ key \in TickerKeys
    THEN symbol_data[key]
    ELSE default

\* The keys of symbol_data['klines']: a timeframe is there once a closed
\* candle of it has been stored.
klines_keys(symbol_data) ==
    {tf \in CollectorTimeframes : symbol_data.klines[tf] > 0}

\* BinanceCollector._should_include_symbol
should_include_symbol(symbol, symbol_data) ==
    /\ symbol \in Symbols
    /\ ticker_get(symbol_data, "quoteVolume", 0) >= MinVolume24h
    /\ klines_keys(symbol_data) # {}
    /\ \A tf \in RequiredTimeframes :
          /\ tf \in klines_keys(symbol_data)
          /\ symbol_data.klines[tf] >= MinKlines

\* _adapt_symbol_data: the three blocks, each reduced to whether it is
\* non-empty. historical_data always has current_price and current_data
\* always has ticker_data; timeframe_data has an entry for each of
\* TIMEFRAMES that has stored candles.
adapt_symbol_data(raw_data) ==
    [historical_data |-> TRUE,
     current_data |-> TRUE,
     timeframe_data |-> (TIMEFRAMES \cap klines_keys(raw_data)) # {}]

\* What _should_analyze_symbol reads of an adapted entry: the entry has no
\* 'volume_24h' and no 'price' key, so both .get calls give their default.
detector_view(adapted) ==
    [volume_24h |-> 0, price |-> 0,
     has_data |-> adapted.historical_data /\ adapted.current_data
                  /\ adapted.timeframe_data]

NoFeedCycle == [ran |-> FALSE, included |-> FALSE, analysed |-> FALSE]

\* _process_ticker_data: the symbol's ticker is replaced.
StoreTicker(price, volume) ==
    /\ collection' = [collection EXCEPT
           !.store = [@ EXCEPT !.has_ticker = TRUE, !.price = price,
                               !.volume_24h = volume]]
    /\ UNCHANGED notFeedVars

\* _process_kline_data on one message with a closed candle: the candle is
\* appended to the list of its timeframe, which keeps its last
\* BufferCapacity.
StoreKline(timeframe) ==
    /\ collection.store.klines[timeframe] < MaxStored
    /\ collection' = [collection EXCEPT
           !.store.klines[timeframe] =
               IF @ + 1 > BufferCapacity THEN BufferCapacity ELSE @ + 1]
    /\ UNCHANGED notFeedVars

\* One turn of _main_analysis_loop: get_all_symbols_data adapts the entries
\* _should_include_symbol lets through, and the detector analyses those of
\* them that pass _should_analyze_symbol.
FeedCycle ==
    /\ LET raw_data == collection.store
           included == should_include_symbol(FeedSymbol, raw_data)
           analysed ==
               /\ included
               /\ should_analyze_symbol(FeedSymbol,
                                        detector_view(adapt_symbol_data(raw_data)))
       IN  collection' = [collection EXCEPT
               !.cycle = [ran |-> TRUE, included |-> included,
                          analysed |-> analysed]]
    /\ UNCHANGED notFeedVars

-----------------------------------------------------------------------------
(* Specifications *)

Init ==
    /\ clock = StartHour
    /\ generated_signals = <<>>
    /\ daily_signal_count = 0
    /\ last_reset_date = Date(StartHour)
    /\ gen_ret = <<>>
    /\ running = FALSE
    /\ active_pairs = <<>>
    /\ websocket_connections = <<>>
    /\ tasks = <<>>
    /\ sockets = <<>>
    /\ feed = <<>>
    /\ stopCall = [pc |-> "idle", pos |-> 0, size |-> 0]
    /\ apiStarts = 0
    /\ bot = [pc |-> "idle", running |-> FALSE, handlers |-> FALSE,
              launcher |-> FALSE, shutdown |-> FALSE, stopped |-> FALSE,
              late_cycle |-> FALSE,
              analysis |-> "none", report |-> "none", cycles |-> 0]
    /\ price_data = [k \in {} |-> <<>>]
    /\ now = 0
    /\ symbol_cache = <<>>
    /\ cycle = [pc |-> "idle", started |-> 0,
                time |-> 0, market_data |-> <<>>, units |-> <<>>,
                opportunities |-> <<>>, returned |-> <<>>, before |-> <<>>,
                history |-> <<>>]
    /\ analysis_count = 0
    /\ semaphore = [value |-> 0, waiters |-> <<>>]
    /\ analysis_tasks = <<>>
    /\ averaging = [signal_history |-> << >>, current_averages |-> << >>,
                    history_file |-> << >>,
                    file_exists |-> FALSE, file_valid |-> FALSE, now |-> 0, added |-> 0,
                    raised |-> 0]
    /\ symbol_analysis = NoAnalysis
    /\ technical_call = NoTechnicalCall
    /\ collection = [store |-> NoStore, cycle |-> NoFeedCycle]
    /\ presentation = [current_opportunities |-> <<>>, daily_signals |-> <<>>,
                       batch |-> IdleBatch,
                       batches |-> 0, reader |-> IdleReader, reads |-> 0]
    /\ dispatch = [price_data |-> << >>, tickers |-> << >>, data_callbacks |-> <<>>,
                   notified |-> <<>>,
                   message |-> Message(FALSE, FALSE, "none", FALSE, NoSymbol, FALSE, FALSE, 0),
                   received |-> 0, shard |-> "reading"]
    /\ scheduler = [pc |-> "check", running |-> TRUE, time |-> 0, cycle_start |-> 0,
                    in_progress |-> 0, started |-> 0,
                    last |-> [start |-> 0, end |-> 0, ending |-> "none", sleep |-> 0]]

\* SignalGenerator on its own.
GenNext ==
    \/ \E b \in Batches : generate_final_signals(b)
    \/ GenTick

GenSpec == Init /\ [][GenNext]_vars

\* SignalGenerator fed with the signals at the edges of its gate.
GateNext ==
    \/ \E b \in GateBatches : generate_final_signals(b)
    \/ GenTick

GateSpec == Init /\ [][GateNext]_vars

\* MassiveDataCollector driven through its own start() and stop().
ColNext ==
    \/ \E n \in ColUniverses : ApiStart(n)
    \/ \E t \in DOMAIN tasks : TaskLoop(t)
    \/ \E t \in DOMAIN tasks : ConnectOk(t)
    \/ \E t \in DOMAIN tasks : ShardFails(t)
    \/ \E t \in DOMAIN tasks : Receive(t)
    \/ \E t \in DOMAIN tasks : FinishMessage(t)
    \/ \E t \in DOMAIN tasks : StreamEnds(t)
    \/ \E t \in DOMAIN tasks : SeeClosed(t)
    \/ \E t \in DOMAIN tasks : Wake(t)
    \/ \E s \in FeedPairs : FeedClose(s)
    \/ StopBegin
    \/ StopStep

ColSpec == Init /\ [][ColNext]_vars

\* CryptoMomentumBot with its collector.
BotNext ==
    \/ BotStart
    \/ start_integrated_system
    \/ LauncherWake
    \/ \E n \in BotUniverses : BotConnected(n)
    \/ BotInitFails
    \/ \E n \in BotUniverses : BotInitDone(n)
    \/ BotStartFails
    \/ BotCollectorStarted
    \/ AnalysisCheck
    \/ \E ending \in CycleEnds : AnalysisCycleEnd(ending)
    \/ AnalysisWake
    \/ ReportCheck
    \/ ReportWake
    \/ BotLoopsDone
    \/ SignalHandler
    \/ LauncherSignal
    \/ BotStopCall
    \/ \E t \in DOMAIN tasks : TaskLoop(t)
    \/ \E t \in DOMAIN tasks : ConnectOk(t)
    \/ \E t \in DOMAIN tasks : ShardFails(t)
    \/ \E t \in DOMAIN tasks : Receive(t)
    \/ \E t \in DOMAIN tasks : FinishMessage(t)
    \/ \E t \in DOMAIN tasks : StreamEnds(t)
    \/ \E t \in DOMAIN tasks : SeeClosed(t)
    \/ \E t \in DOMAIN tasks : Wake(t)
    \/ \E s \in FeedPairs : FeedClose(s)
    \/ StopBegin
    \/ StopStep

BotSpec == Init /\ [][BotNext]_vars

\* The event loop runs every task that is ready, and a connection attempt
\* comes to an end: these steps are weakly fair.
BotFair ==
    /\ BotSpec
    /\ \A t \in 1..MaxTasks :
          /\ WF_vars(t \in DOMAIN tasks /\ TaskStep(t))
          /\ WF_vars(t \in DOMAIN tasks /\ ConnectOk(t))
    /\ WF_vars(BotStep)
    /\ WF_vars(StopStep)

\* The candle buffers on their own.
BufNext == \E s \in BufSymbols, x \in BOOLEAN : KlineMessage(s, x)

BufSpec == Init /\ [][BufNext]_vars

\* MomentumDetector on its own.
DetNext ==
    \/ \E m \in Markets, o \in Outcomes : detect_momentum_opportunities(m, o)
    \/ gather_returns
    \/ force_analysis_refresh
    \/ \E d \in TickSteps : DetTick(d)

DetSpec == Init /\ [][DetNext]_vars

\* The detector's cycles on a market wide enough to fill the returned list.
TopNext ==
    \/ \E o \in WideOutcomes : detect_momentum_opportunities(WideMarket, o)
    \/ gather_returns

TopSpec == Init /\ [][TopNext]_vars

\* The analysis units of one cycle.
SemNext ==
    \/ \E n \in UnitCounts : CreateUnits(n)
    \/ \E i \in DOMAIN analysis_tasks : UnitEnter(i)
    \/ \E i \in DOMAIN analysis_tasks : UnitWake(i)
    \/ \E i \in DOMAIN analysis_tasks, raised \in BOOLEAN : UnitLeave(i, raised)

SemSpec == Init /\ [][SemNext]_vars

\* The event loop runs every unit that is ready, and an analysis comes to
\* an end.
SemFair ==
    /\ SemSpec
    /\ WF_vars(\E i \in DOMAIN analysis_tasks : UnitEnter(i))
    /\ WF_vars(\E i \in DOMAIN analysis_tasks : UnitWake(i))
    /\ WF_vars(\E i \in DOMAIN analysis_tasks, raised \in BOOLEAN : UnitLeave(i, raised))

\* The analysis loop's pacing.
SchedNext ==
    \/ SchedCheck
    \/ \E e \in CycleEnds, d \in Durations : SchedCycleEnd(e, d)
    \/ SchedWake
    \/ SchedStop

SchedSpec == Init /\ [][SchedNext]_vars

\* The trend averager: analyses added, old entries cleaned, the history
\* loaded again, hours passing. Until a call has raised, the analysis may
\* be the momentum strategy's, whose momentum_score and confidence_level
\* are dicts.
AvgNext ==
    \/ \E symbol \in AvgSymbols :
          add_signal(symbol, [momentum_score |-> 50, confidence_level |-> "Medio",
                              seq |-> averaging.added + 1])
    \/ \E symbol \in StrategySymbols :
          /\ averaging.raised = 0
          /\ add_signal(symbol, [momentum_score |-> NotANumber,
                                 confidence_level |-> "dict",
                                 seq |-> averaging.added + 1])
    \/ cleanup_old_signals
    \/ ReloadHistory
    \/ AvgTick

AvgSpec == Init /\ [][AvgNext]_vars

\* The trend averager on one symbol's scores.
TrendNext ==
    \/ \E analysis \in TrendAnalyses : add_signal("AUSDT", analysis)
    \/ cleanup_old_signals
    \/ ReloadHistory

TrendSpec == Init /\ [][TrendNext]_vars

\* One shard reading messages while callbacks are registered.
MsgNext ==
    \/ \E kind \in CallbackKinds : register_callback(kind)
    \/ \E message \in Messages : ReceiveMessage(message)
    \/ ConnectionClosed
    \/ Reconnect

MsgSpec == Init /\ [][MsgNext]_vars

\* The technical analyzer called on one symbol's data after the other.
TechNext ==
    \/ \E symbol_data \in MarketInputs : TechnicalCall(symbol_data)
    \/ TechnicalReturn

TechSpec == Init /\ [][TechNext]_vars

\* One symbol's ticker and candles stored between analysis cycles.
FeedNext ==
    \/ \E price \in TickerPrices, volume \in TickerVolumes : StoreTicker(price, volume)
    \/ \E timeframe \in CollectorTimeframes : StoreKline(timeframe)
    \/ FeedCycle

FeedSpec == Init /\ [][FeedNext]_vars

\* The batch on the loop's thread interleaved with an accessor on the
\* dashboard's.
PresNext ==
    \/ \E opportunities \in PresLists : BatchBegin(opportunities)
    \/ BatchClear
    \/ BatchInsert
    \/ BatchAppend
    \/ BatchSaved
    \/ BatchEnd
    \/ BatchSorted
    \/ BatchCut
    \/ update_top_opportunities
    \/ \E accessor \in Accessors : ReadBegin(accessor)
    \/ ReadStep
    \/ ReadNext
    \/ ReadDaily
    \/ ReadReturn

PresSpec == Init /\ [][PresNext]_vars

\* One symbol after another analysed and unified.
ScoreNext ==
    \/ AnalysisCall
    \/ \E data \in HistoricalInputs : AnalyzeHistorical(data)
    \/ \E data \in TechnicalInputs : AnalyzeTechnical(data)
    \/ \E data \in ConfluenceInputs : AnalyzeConfluence(data)
    \/ Unify
    \/ AnalysisReturn
    \/ force_analysis_refresh

ScoreSpec == Init /\ [][ScoreNext]_vars

-----------------------------------------------------------------------------
(* Claims about the signal generator (GenSpec) *)

\* C1: no two emitted FinalSignals carry the same symbol with emission
\* timestamps less than 2 hours apart, whatever the batches, the clock
\* advances and the state of the daily quota.
C1_OnePerSymbolPerWindow ==
    \A i, j \in DOMAIN generated_signals :
        (i < j /\ generated_signals[i].symbol = generated_signals[j].symbol)
            => generated_signals[j].timestamp - generated_signals[i].timestamp
                   >= DedupHours

\* C2: within one calendar day the number of FinalSignals emitted
\* (daily_signal_count) never exceeds the quota plus the STRONG overflow
\* allowance, 3 + 2 = 5.
C2_DailyQuotaBound ==
    daily_signal_count <= TARGET_DAILY_SIGNALS + ExtraStrongSignals


\* C3: once start() waits on the collector with a non-empty universe, the
\* analysis loop completes a cycle while the collector's flag stays set
\* (the collector does not have to stop first).
C3_AnalysisRunsWhileStreaming ==
    []((bot.pc = "await_start" /\ active_pairs # <<>>)
          => <>(bot.cycles > 0 \/ ~running))

\* C4: when stop() has ended, the flag is cleared and every shard loop has
\* exited, no connection is registered and no socket is open.
C4_StopLeavesNothingOpen ==
    (/\ stopCall.pc \in {"done", "raised"}
     /\ ~running
     /\ \A t \in DOMAIN tasks : tasks[t].pc = "exited")
        => /\ websocket_connections = <<>>
           /\ \A s \in DOMAIN sockets : ~sockets[s]

\* C5: after the shutdown signal (the handler fired or stop() was called)
\* the collector's flag is eventually cleared.
C5_ShutdownStopsCollector == [](bot.shutdown => <>(~running))

\* C6: a closed candle delivered once by the feed is stored at most once in
\* its symbol's buffer, under any interleaving of start(), stop() and
\* shard steps.
C6_CandleAppendedOnce ==
    \A k \in DOMAIN price_data :
        \A i, j \in DOMAIN price_data[k] :
            i < j => price_data[k][i].open_time # price_data[k][j].open_time

\* C7: a step in which a shard loses its connection while the flag is set
\* (it was connecting, or waiting on its open socket, and after the step it
\* is neither waiting nor processing a message) sends that shard alone
\* into a backoff of 5 seconds, with its batch and connection id, and leaves
\* every other shard, every other socket, the registry, the buffers and
\* the flag as they were; after the backoff the shard returns to its loop
\* test, and from there it connects again as long as the flag is set.
C7_FailureIsolation ==
    [][\A t \in DOMAIN tasks :
          /\ ( /\ running
               /\ \/ tasks[t].pc = "connecting"
                  \/ tasks[t].pc = "waiting" /\ sockets[tasks[t].ws]
               /\ tasks'[t].pc \notin {"connecting", "waiting", "processing"} ) =>
                /\ tasks'[t] = [tasks[t] EXCEPT !.pc = "backoff", !.delay = RetryDelay]
                /\ \A u \in DOMAIN tasks \ {t} : tasks'[u] = tasks[u]
                /\ \A s \in DOMAIN sockets :
                      (s # tasks[t].ws \/ tasks[t].pc = "connecting")
                          => sockets'[s] = sockets[s]
                /\ websocket_connections' = websocket_connections
                /\ price_data' = price_data
                /\ running' = running
          /\ (tasks[t].pc = "backoff" /\ tasks'[t] # tasks[t]) =>
                tasks'[t] = [tasks[t] EXCEPT !.pc = "loop", !.delay = 0]
          /\ (tasks[t].pc = "loop" /\ tasks'[t] # tasks[t]) =>
                tasks'[t] = [tasks[t] EXCEPT
                                !.pc = IF running THEN "connecting" ELSE "exited"]
      ]_vars

\* C8: a candle list never holds more than 200 entries, and an append to a
\* list of 200 drops its first entry, keeps the other 199 in order and puts
\* the new candle last.
C8_RollingBuffer ==
    [][\A k \in DOMAIN price_data' :
          /\ Len(price_data'[k]) <= BufferCapacity
          /\ (/\ k \in DOMAIN price_data
              /\ Len(price_data[k]) = BufferCapacity
              /\ price_data'[k] # price_data[k]) =>
                 /\ Len(price_data'[k]) = BufferCapacity
                 /\ SubSeq(price_data'[k], 1, BufferCapacity - 1) = Tail(price_data[k])
                 /\ price_data'[k][BufferCapacity].open_time =
                        price_data[k][BufferCapacity].open_time + 1
      ]_vars

\* A full list whose oldest candle has been evicted.
C8_Witness ==
    \E k \in DOMAIN price_data :
        /\ Len(price_data[k]) = BufferCapacity
        /\ price_data[k][1].open_time > 1

\* C9: a symbol whose analysers ran before is served the earlier result,
\* whatever it was, when the request comes less than 300 seconds later, and
\* is analysed afresh otherwise.
C9_AnyResultServedWhileFresh ==
    \A i \in DOMAIN cycle.units :
        cycle.units[i].symbol \in DOMAIN cycle.before =>
            IF cycle.time - cycle.before[cycle.units[i].symbol].time < cache_duration
            THEN /\ ~cycle.units[i].fresh
                 /\ cycle.units[i].result = cycle.before[cycle.units[i].symbol].result
            ELSE cycle.units[i].fresh

\* C9 (amended): a symbol whose latest analysis gave a valid opportunity is
\* served that stored result when the request comes less than 300 seconds
\* after it was stored and force_analysis_refresh was not called in
\* between; a symbol whose latest analysis gave no valid opportunity, or
\* whose result is 300 seconds old or older, or was cleared by
\* force_analysis_refresh, is analysed afresh.
C9_ValidResultServedWhileFresh ==
    \A i \in DOMAIN cycle.units :
        cycle.units[i].symbol \in DOMAIN cycle.before =>
            IF /\ cycle.before[cycle.units[i].symbol].result # None
               /\ ~cycle.before[cycle.units[i].symbol].cleared
               /\ cycle.time - cycle.before[cycle.units[i].symbol].time < cache_duration
            THEN /\ ~cycle.units[i].fresh
                 /\ cycle.units[i].result = cycle.before[cycle.units[i].symbol].result
            ELSE cycle.units[i].fresh

\* A later cycle served a symbol from the cache, and analysed afresh a
\* symbol whose earlier analysis, less than 300 seconds old, gave nothing.
C9_Witness ==
    /\ \E i \in DOMAIN cycle.units : cycle.time > 0 /\ ~cycle.units[i].fresh
    /\ \E i \in DOMAIN cycle.units :
          /\ cycle.units[i].fresh
          /\ cycle.units[i].symbol \in DOMAIN cycle.before
          /\ cycle.before[cycle.units[i].symbol].result = None
          /\ ~cycle.before[cycle.units[i].symbol].cleared
          /\ cycle.time - cycle.before[cycle.units[i].symbol].time < cache_duration

\* C10: a cycle has exactly one unit for every symbol that passes
\* _should_analyze_symbol; once the call has returned, the collected
\* opportunities are exactly the results of the units that gave one, so a
\* unit that raised or gave none adds nothing and takes nothing away; the
\* returned list holds collected opportunities only.
C10_FailingUnitIsolated ==
    LET eligible == {e \in Range(cycle.market_data) :
                        should_analyze_symbol(e.symbol, e.data)}
    IN  /\ Len(cycle.units) = Cardinality(eligible)
        /\ \A e \in eligible :
              Cardinality({i \in DOMAIN cycle.units :
                              cycle.units[i].symbol = e.symbol}) = 1
        /\ cycle.pc = "idle" =>
              Range(cycle.opportunities) =
                 {cycle.units[i].result :
                     i \in {j \in DOMAIN cycle.units : cycle.units[j].result # None}}
        /\ Range(cycle.returned) \subseteq Range(cycle.opportunities)

\* A cycle in which the first unit failed and the result of a later unit
\* was collected and returned.
C10_Witness ==
    \E i, j \in DOMAIN cycle.units :
        /\ i < j
        /\ cycle.units[i].fresh /\ cycle.units[i].result = None
        /\ cycle.units[j].result # None
        /\ cycle.units[j].result \in Range(cycle.returned)

\* C11: at most 10 units are inside analyze_symbol_complete at any moment,
\* every unit handed to gather ends by having run and given its slot back,
\* whether it returned or raised, and then all 10 slots are free again.
C11_BoundedParallelism ==
    /\ [](Cardinality({i \in DOMAIN analysis_tasks : analysis_tasks[i] = "running"})
            <= SemaphoreSlots)
    /\ []((analysis_tasks # <<>>)
            => <>(/\ \A i \in DOMAIN analysis_tasks : analysis_tasks[i] = "done"
                  /\ semaphore.value = SemaphoreSlots))

\* Ten units run and the eleventh waits for a slot.
C11_Witness ==
    /\ Cardinality({i \in DOMAIN analysis_tasks : analysis_tasks[i] = "running"})
          = SemaphoreSlots
    /\ \E i \in DOMAIN analysis_tasks : analysis_tasks[i] = "waiting"

\* C12: at most one cycle is in progress, a cycle never starts before the
\* end of the one before it, and after every cycle of duration d the loop
\* sleeps max(0, 30 - d) seconds.
C12_SleepsIntervalMinusDuration ==
    /\ scheduler.in_progress <= 1
    /\ (scheduler.pc = "cycle" /\ scheduler.started > 1)
          => scheduler.cycle_start >= scheduler.last.end
    /\ scheduler.last.ending # "none"
          => scheduler.last.sleep =
                Max(0, UPDATE_INTERVAL - (scheduler.last.end - scheduler.last.start))

\* C12 (amended): at most one cycle is in progress, a cycle never starts
\* before the end of the one before it, and the loop sleeps max(0, 30 - d)
\* seconds after a cycle that analysed data for d seconds, the whole 30
\* seconds after a cycle that found no data, and 5 seconds after a cycle
\* that raised.
C12_PacedWithoutOverlap ==
    /\ scheduler.in_progress <= 1
    /\ (scheduler.pc = "cycle" /\ scheduler.started > 1)
          => scheduler.cycle_start >= scheduler.last.end
    /\ scheduler.last.ending = "done"
          => scheduler.last.sleep =
                Max(0, UPDATE_INTERVAL - (scheduler.last.end - scheduler.last.start))
    /\ scheduler.last.ending = "no_data" => scheduler.last.sleep = UPDATE_INTERVAL
    /\ scheduler.last.ending = "raised" => scheduler.last.sleep = ErrorPause

\* A second cycle has started right at the end of a first one that took
\* longer than the interval.
C12_Witness ==
    /\ scheduler.pc = "cycle" /\ scheduler.started > 1
    /\ scheduler.last.ending = "done"
    /\ scheduler.last.end - scheduler.last.start > UPDATE_INTERVAL
    /\ scheduler.cycle_start = scheduler.last.end

\* C13: every signal get_active_signals returns was emitted less than 4
\* hours ago, and no two of them carry the same symbol.
C13_ActiveSignalsFreshAndUnique ==
    LET active == get_active_signals(generated_signals, clock)
    IN  /\ \A i \in DOMAIN active : clock - active[i].timestamp < ValidHours
        /\ \A i, j \in DOMAIN active :
              i < j => active[i].symbol # active[j].symbol

\* C14: every symbol's window holds at most window_size entries.
C14_WindowBounded ==
    \A s \in DOMAIN averaging.signal_history :
        Len(averaging.signal_history[s].items) <= window_size

TierRank(level) ==
    CASE level = "FUERTE" -> 3 [] level = "ALTO" -> 2 [] level = "MEDIO" -> 1
      [] OTHER -> 0

\* What C15 asks of the signals `out` one call emits from the admissible
\* candidates `cands` with `free` slots left.
SelectedByTier(cands, out, free) ==
    /\ Len(out) <= free
    /\ \A i, j \in DOMAIN out : i < j => out[i].symbol # out[j].symbol
    /\ Cardinality({i \in DOMAIN out : out[i].confidence_level = "FUERTE"})
          <= MaxStrongSlots
    /\ \A i \in DOMAIN out :
          /\ TierRank(out[i].confidence_level) >= 1
          /\ out[i].confidence_level = "MEDIO" => out[i].total_score >= MedioMinScore
          /\ \E k \in DOMAIN cands :
                /\ cands[k].symbol = out[i].symbol
                /\ cands[k].confidence_level = out[i].confidence_level
                /\ cands[k].total_score = out[i].total_score
    /\ \A i, j \in DOMAIN out :
          i < j =>
            /\ TierRank(out[i].confidence_level) >= TierRank(out[j].confidence_level)
            /\ out[i].confidence_level = out[j].confidence_level
                  => priority_ge(out[i].priority_score, out[j].priority_score)
    /\ \A i \in DOMAIN out, k \in DOMAIN cands :
          (\A j \in DOMAIN out : out[j].symbol # cands[k].symbol) =>
            /\ TierRank(cands[k].confidence_level) <= TierRank(out[i].confidence_level)
            /\ ( /\ cands[k].confidence_level = out[i].confidence_level
                 /\ cands[k].confidence_level = "MEDIO"
                       => cands[k].total_score >= MedioMinScore )
                  => priority_ge(out[i].priority_score,
                                 calculate_priority_score(cands[k]))

\* C15: while the daily quota is not exhausted, whatever batch is handed
\* to generate_final_signals now, the call emits at most the free slots,
\* one signal per symbol, FUERTE first (at most 3), then ALTO, then MEDIO
\* of total score 65 or more, each tier by descending priority (an emitted
\* signal has at least the priority of every admissible candidate of its
\* tier whose symbol is left out), and no lower tier while an admissible
\* higher-tier candidate of an unselected symbol is left out.
C15_SelectionByTier ==
    LET count0 == ResetCount(daily_signal_count, last_reset_date, clock)
        generated0 == ResetSignals(generated_signals, last_reset_date, clock)
    IN  count0 < TARGET_DAILY_SIGNALS =>
          \A b \in Batches :
              \A out \in EmittedBy(b, generated_signals, daily_signal_count,
                                  last_reset_date, clock) :
                  SelectedByTier(
                      filter_candidate_signals(b, generated0, count0, clock),
                      out, TARGET_DAILY_SIGNALS - count0)

\* A call with one slot used before it has emitted two FUERTE signals, the
\* one of strictly greater priority first.
C15_Witness ==
    /\ daily_signal_count = TARGET_DAILY_SIGNALS
    /\ Len(gen_ret) = 2
    /\ gen_ret[1].confidence_level = "FUERTE"
    /\ gen_ret[2].confidence_level = "FUERTE"
    /\ ~priority_ge(gen_ret[2].priority_score, gen_ret[1].priority_score)

\* The signals emitted on the day of time t.
EmittedToday(generated, t) ==
    Cardinality({i \in DOMAIN generated : Date(generated[i].timestamp) = Date(t)})

\* C16: a call made when the signals emitted today have reached the daily
\* quota emits FUERTE signals only.
C16_OnlyStrongOverQuota ==
    [][ ( /\ clock' = clock
          /\ EmittedToday(generated_signals, clock) >= TARGET_DAILY_SIGNALS )
        => \A i \in DOMAIN gen_ret' : gen_ret'[i].confidence_level = "FUERTE" ]_vars

\* With the quota reached by signals of the day, one of them not FUERTE,
\* a later call of the same day has emitted a further signal.
C16_Witness ==
    /\ Len(gen_ret) >= 1
    /\ EmittedToday(generated_signals, clock) - Len(gen_ret) >= TARGET_DAILY_SIGNALS
    /\ gen_ret[1].timestamp = clock
    /\ \E i \in DOMAIN generated_signals :
          /\ generated_signals[i].confidence_level # "FUERTE"
          /\ Date(generated_signals[i].timestamp) = Date(clock)

\* C17: every emitted signal has a total score of 45 or more (55 or more
\* when its tier is DEBIL), a recommendation among STRONG_BUY, BUY and
\* WEAK_BUY, and a target probability of 35% or more.
C17_EmittedPassedGate ==
    \A i \in DOMAIN generated_signals :
        LET s == generated_signals[i]
        IN  /\ s.total_score >= 45
            /\ s.confidence_level = "DEBIL" => s.total_score >= 55
            /\ s.recommendation \in {"STRONG_BUY", "BUY", "WEAK_BUY"}
            /\ s.target_probability >= 35

\* Signals of the two symbols that have a passing candidate have been
\* emitted, one of them by the last call.
C17_Witness ==
    /\ Len(gen_ret) = 1
    /\ {generated_signals[i].symbol : i \in DOMAIN generated_signals}
          = {"AUSDT", "BUSDT"}

\* C18: every emitted signal, having passed the gate, has at least two of
\* its three sub-scores above half of their maxima: historical above 12.5,
\* technical above 25, confluence above 12.5.
C18_TwoSubScoresAboveHalf ==
    \A i \in DOMAIN generated_signals :
        LET c == generated_signals[i].component_scores
        IN  B2N(2 * c.historical > 25) + B2N(c.technical > 25)
              + B2N(2 * c.confluence > 25) >= 2

\* C19: on every path, error and insufficient-data paths included, the
\* historical sub-score lies in 0..25, the technical one in 0..50 and the
\* confluence one in 0..25.
C19_SubScoresInRange ==
    /\ symbol_analysis.historical_result.historical_score \in 0..25
    /\ symbol_analysis.technical_result.technical_score \in 0..50
    /\ symbol_analysis.confluence_result.confluence_score \in 0..25

\* The three analyzers have run: the historical and the technical one
\* reached their caps, the confluence validator raised.
C19_Witness ==
    /\ symbol_analysis.pc = "unify"
    /\ symbol_analysis.historical_result.historical_score = 25
    /\ symbol_analysis.technical_result.technical_score = 50
    /\ symbol_analysis.confluence_result.error = "raised"

\* C20: the total score of a unified signal is the sum of the three
\* sub-scores recorded in its components, clamped to 0..100.
C20_TotalIsClampedSum ==
    symbol_analysis.pc = "done" =>
        LET c == symbol_analysis.unified_signal.components
            total == c.historical.historical_score + c.technical.technical_score
                       + c.confluence.confluence_score
        IN  symbol_analysis.unified_signal.total_score
              = (IF total < 0 THEN 0 ELSE IF total > 100 THEN 100 ELSE total)

\* A signal unified from sub-scores 12, 50 and 12.
C20_Witness ==
    /\ symbol_analysis.pc = "done"
    /\ symbol_analysis.unified_signal.components.historical.historical_score = 12
    /\ symbol_analysis.unified_signal.components.technical.technical_score = 50
    /\ symbol_analysis.unified_signal.components.confluence.confluence_score = 12
    /\ symbol_analysis.unified_signal.total_score = 74

\* The tier C21 names for a total score of 30..100.
TierOfBand(score) ==
    IF score >= 85 THEN "FUERTE"
    ELSE IF score >= 70 THEN "ALTO"
    ELSE IF score >= 50 THEN "MEDIO"
    ELSE "DEBIL"

\* C21: a unified signal with a total score of 30..100 carries the tier of
\* the one band its score lies in (FUERTE 85-100, ALTO 70-84, MEDIO 50-69,
\* DEBIL 30-49), and no score of 30..100 lies in two bands or in none.
C21_TierByBand ==
    /\ symbol_analysis.unified_signal.total_score \in 30..100
          => symbol_analysis.unified_signal.confidence_level
               = TierOfBand(symbol_analysis.unified_signal.total_score)
    /\ \A score \in 30..100 :
          /\ Cardinality({i \in DOMAIN CONFIDENCE_LEVELS :
                            /\ CONFIDENCE_LEVELS[i].min_score <= score
                            /\ score <= CONFIDENCE_LEVELS[i].max_score}) = 1
          /\ classify_confidence_level(score) = TierOfBand(score)

\* A signal was unified with a total at the lower end of the FUERTE band.
C21_Witness ==
    /\ symbol_analysis.pc = "done"
    /\ symbol_analysis.unified_signal.total_score = 85
    /\ symbol_analysis.unified_signal.confidence_level = "FUERTE"

\* C22: a unified signal with a total score under 30 carries none of the
\* four tiers.
C22_LowScoreDiscarded ==
    (symbol_analysis.pc = "done" /\ symbol_analysis.unified_signal.total_score < 30)
        => symbol_analysis.unified_signal.confidence_level
             \notin {"DEBIL", "MEDIO", "ALTO", "FUERTE"}

\* C23: a unified signal with a total score of 85 or more has strength
\* VERY_STRONG exactly when its historical, technical and confluence
\* sub-scores are at least 15, 30 and 15, and STRONG otherwise.
C23_StrengthAtSixtyPercent ==
    (symbol_analysis.pc = "done" /\ symbol_analysis.unified_signal.total_score >= 85)
        => LET c == symbol_analysis.unified_signal.components
           IN  symbol_analysis.unified_signal.signal_strength
                 = (IF /\ c.historical.historical_score >= 15
                       /\ c.technical.technical_score >= 30
                       /\ c.confluence.confluence_score >= 15
                    THEN "VERY_STRONG" ELSE "STRONG")


\* C24: every call of add_signal reports a trend whose direction is one of
\* strengthening, weakening and stable.
C24_TrendDirectionOneOfThree ==
    \A s \in DOMAIN averaging.current_averages :
        averaging.current_averages[s].trend.direction
            \in {"strengthening", "weakening", "stable"}

\* The result in current_averages is the one of the last add_signal on the
\* window as it is now.
FreshResult(s) ==
    /\ s \in DOMAIN averaging.signal_history
    /\ s \in DOMAIN averaging.current_averages
    /\ ~average_raises(averaging.signal_history[s].items)
    /\ averaging.current_averages[s].history_count
           = Len(averaging.signal_history[s].items)
    /\ averaging.current_averages[s].averaged_signal
           = calculate_average(averaging.signal_history[s].items)

\* C25: when the last window_size calls of add_signal for a symbol carried
\* the same momentum score, the trend they report is stable.
C25_SameScoresGiveStable ==
    \A s \in DOMAIN averaging.current_averages :
        LET items == averaging.signal_history[s].items
            last == LastItems(items, window_size)
        IN  (/\ FreshResult(s)
             /\ Len(items) >= window_size
             /\ \A i \in DOMAIN last :
                    last[i].analysis.momentum_score
                        = last[1].analysis.momentum_score)
            => averaging.current_averages[s].trend.direction = "stable"

\* C26: the confidence tier of the averaged signal is a most frequent tier
\* of the window's entries.
C26_AveragedTierIsMostFrequent ==
    \A s \in DOMAIN averaging.current_averages :
        LET items == averaging.signal_history[s].items
            tier_count(t) == Cardinality({i \in DOMAIN items :
                                items[i].analysis.confidence_level = t})
        IN  FreshResult(s)
            => \A i \in DOMAIN items :
                   tier_count(averaging.current_averages[s]
                                  .averaged_signal.confidence_level)
                       >= tier_count(items[i].analysis.confidence_level)

\* The step reads a message and changes a cache.
WriteStep ==
    /\ dispatch'.received # dispatch.received
    /\ \/ dispatch'.price_data # dispatch.price_data
       \/ dispatch'.tickers # dispatch.tickers

\* C27: after a message that wrote a ticker or appended a closed candle,
\* every registered callback has been called exactly once, in registration
\* order, with the event kind, the symbol and the payload now in the cache,
\* whether or not callbacks raised; the shard keeps reading.
C27_EveryCallbackNotifiedOnce ==
    [][WriteStep =>
        LET m == dispatch'.message
            symbol == IF m.has_s THEN m.s ELSE NoSymbol
            candles == Klines(dispatch'.price_data, symbol, "1m")
            payload == IF m.stream = "ticker" THEN dispatch'.tickers[symbol]
                       ELSE candles[Len(candles)]
        IN  /\ Len(dispatch'.notified) = Len(dispatch.data_callbacks)
            /\ \A i \in DOMAIN dispatch'.notified :
                  dispatch'.notified[i] =
                      [callback |-> i, data_type |-> m.stream,
                       symbol |-> symbol, data |-> payload]
            /\ dispatch'.shard = "reading"]_vars

C27_Witness ==
    /\ dispatch.data_callbacks = <<"raises", "returns">>
    /\ dispatch.message.stream = "kline"
    /\ Len(dispatch.notified) = 2
    /\ dispatch.notified[2].data \in
           {Klines(dispatch.price_data, 1, "1m")[i] :
               i \in DOMAIN Klines(dispatch.price_data, 1, "1m")}
    /\ dispatch.shard = "reading"

\* A message that does not parse, lacks a field that is read, or carries a
\* candle that is still open.
Unusable(m) ==
    \/ ~m.json
    \/ ~m.envelope
    \/ ~m.has_s
    \/ ~m.fields
    \/ m.stream = "kline" /\ ~m.x

\* C28: a message that does not parse or lacks a field, and a candle that
\* is not closed, change no candle list and no ticker and call no callback,
\* and the shard keeps reading.
C28_UnusableMessageChangesNothing ==
    [][(dispatch'.received # dispatch.received /\ Unusable(dispatch'.message)) =>
          /\ dispatch'.price_data = dispatch.price_data
          /\ dispatch'.tickers = dispatch.tickers
          /\ dispatch'.notified = <<>>
          /\ dispatch'.shard = "reading"]_vars

\* No data for the historical analyzer, too little for the technical one,
\* no timeframe for the confluence validator.
MissingHistorical(data) ==
    ~data.raised /\ data.averages = <<>> /\ data.peaks = <<>> /\ data.patterns = <<>>

MissingTechnical(data) == ~data.raised /\ ~data.valid

MissingConfluence(data) == ~data.raised /\ PresentTimeframes(data.momentum) = {}

\* C29: an analyzer given missing or insufficient data returns sub-score 0
\* together with an error flag, and the unified signal that follows counts
\* that sub-score as 0.
C29_MissingDataFlagged ==
    [][/\ \A data \in HistoricalInputs :
            (MissingHistorical(data) /\ AnalyzeHistorical(data)) =>
                /\ symbol_analysis'.historical_result.historical_score = 0
                /\ symbol_analysis'.historical_result.error # ""
       /\ \A data \in TechnicalInputs :
            (MissingTechnical(data) /\ AnalyzeTechnical(data)) =>
                /\ symbol_analysis'.technical_result.technical_score = 0
                /\ symbol_analysis'.technical_result.error # ""
       /\ \A data \in ConfluenceInputs :
            (MissingConfluence(data) /\ AnalyzeConfluence(data)) =>
                /\ symbol_analysis'.confluence_result.confluence_score = 0
                /\ symbol_analysis'.confluence_result.error # ""
       /\ Unify =>
            symbol_analysis'.unified_signal.total_score =
                Min(symbol_analysis.historical_result.historical_score
                      + symbol_analysis.technical_result.technical_score
                      + symbol_analysis.confluence_result.confluence_score, 100)]_vars

\* C30: every active pair belongs to exactly one batch of
\* _setup_websocket_connections, and the URL of no connection names more
\* than max_streams_per_connection streams.
C30_StreamsPerConnectionBounded ==
    /\ \A p \in DOMAIN active_pairs :
          Cardinality({b \in DOMAIN pair_batches(active_pairs) :
                          \E j \in DOMAIN pair_batches(active_pairs)[b] :
                              pair_batches(active_pairs)[b][j] = active_pairs[p]}) = 1
    /\ \A t \in DOMAIN tasks :
          Len(streams(tasks[t].pairs)) <= max_streams_per_connection

\* C31: the list a detection cycle returns is in non-increasing order of
\* total_score, whatever the order of the symbols in market_data.
C31_ReturnedSortedByScore ==
    \A i, j \in DOMAIN cycle.returned :
        i < j => cycle.returned[i].total_score >= cycle.returned[j].total_score

C31_Witness ==
    /\ Len(cycle.returned) = 2
    /\ Len(cycle.market_data) = 2
    /\ cycle.returned[1].symbol = cycle.market_data[2].symbol
    /\ cycle.returned[2].symbol = cycle.market_data[1].symbol
    /\ cycle.returned[1].confidence_level = cycle.returned[2].confidence_level
    /\ cycle.returned[1].total_score > cycle.returned[2].total_score

\* C32: for symbol data with at least 50 price points and a current volume
\* of 6.0 times the average, the volume component of the result of
\* analyze_symbol_technicals is 15.
C32_ExplosiveVolumeScoresFifteen ==
    (/\ technical_call.pc = "returned"
     /\ technical_call.symbol_data.points >= MinPricePoints
     /\ technical_call.symbol_data.ratio10 = 60)
    => technical_call.volume_analysis.score = 15

\* The inputs in which every one of the four timeframes is there and
\* classified BULLISH.
AllBullishInputs ==
    {data \in ConfluenceInputs :
        ~data.raised /\ BullishTimeframes(data.momentum) = DOMAIN timeframe_weights10}

\* C33: when all four timeframes are BULLISH the confluence score is
\* min(25, 15 + strength + 4) with a strength component of 0..6, and so
\* lies between 19 and 25.
C33_AllBullishConfluence ==
    [][symbol_analysis.pc = "confluence" =>
          \A data \in AllBullishInputs :
              AnalyzeConfluence(data) =>
                  LET strength == strength_score(data.momentum)
                      score == symbol_analysis'.confluence_result.confluence_score
                  IN  /\ strength \in 0..6
                      /\ score = Min(CONFLUENCE_MAX_SCORE, 15 + strength + 4)
                      /\ score \in 19..25
                      /\ symbol_analysis'.confluence_result.error = ""]_vars

\* Only four BULLISH timeframes give 23: three give 12 + 6 + 3 at most.
C33_Witness ==
    /\ symbol_analysis.pc = "unify"
    /\ symbol_analysis.confluence_result.confluence_score = 23

\* C34: whatever the batch does to current_opportunities and to
\* daily_signals while an accessor runs, the accessor ends with a value and
\* never with an exception:
\* get_bot_status with its status or its error entry, _get_opportunities
\* with a list sorted by score.
C34_AccessorsNeverRaise ==
    presentation.reader.pc = "returned" =>
        LET r == presentation.reader.result
        IN  /\ r.kind # "raised"
            /\ presentation.reader.accessor = "get_bot_status"
                   => r.kind \in {"status", "error"}
            /\ presentation.reader.accessor = "_get_opportunities"
                   => /\ r.kind = "opportunities"
                      /\ \A i, j \in DOMAIN r.opportunities :
                            i < j => r.opportunities[i].total_score
                                         >= r.opportunities[j].total_score

\* get_bot_status returns its status with a daily count of 0, read while
\* list.sort holds the items of a daily list longer than the list keeps.
C34_Witness ==
    /\ presentation.reader.pc = "returned"
    /\ presentation.reader.accessor = "get_bot_status"
    /\ presentation.reader.result.kind = "status"
    /\ presentation.reader.result.daily_signals = 0
    /\ presentation.batch.pc = "sorting"
    /\ Len(presentation.batch.sorting) > TARGET_DAILY_SIGNALS * 2

\* C35: a USDT symbol whose stored ticker has a 24h quote volume of at
\* least the liquidity threshold and a price within [0.01, 1000], and which
\* has at least 50 closed candles on each of 1m, 5m and 15m, is included by
\* get_all_symbols_data and passes _should_analyze_symbol in every cycle
\* that reads this store.
Eligible(raw_data) ==
    /\ raw_data.has_ticker
    /\ raw_data.volume_24h >= MinVolume24h
    /\ raw_data.price >= MinPriceCents
    /\ raw_data.price <= MaxPriceCents
    /\ \A tf \in CollectorTimeframes : raw_data.klines[tf] >= MinPricePoints

C35_LiquidSymbolIsAnalysed ==
    [][(FeedCycle /\ Eligible(collection.store))
           => (collection'.cycle.included /\ collection'.cycle.analysed)]_vars

\* C36: once add_signal has been called, get_trend_summary returns without
\* raising, and the strengthening, weakening and stable counts it returns
\* sum to total_signals, the number of symbols with a current average.
C36_TrendSummaryCountsAddUp ==
    LET summary == get_trend_summary(averaging.current_averages)
    IN  averaging.added > 0
        => /\ ~summary.raised
           /\ ~summary.empty
                => /\ summary.strengthening + summary.weakening + summary.stable
                          = summary.total_signals
                   /\ summary.total_signals
                          = Cardinality(DOMAIN averaging.current_averages)

\* The recommendation the bands of the total score give.
RecommendationBand(total_score) ==
    IF total_score >= 85 THEN "STRONG_BUY"
    ELSE IF total_score >= 70 THEN "BUY"
    ELSE IF total_score >= 60 THEN "WEAK_BUY"
    ELSE IF total_score >= 50 THEN "WATCH"
    ELSE "HOLD"

\* C37: the recommendation of a unified signal is decided by its total
\* score alone: STRONG_BUY from 85, BUY for 70..84, WEAK_BUY for 60..69,
\* WATCH for 50..59 and HOLD below 50, whatever the sub-scores, the tier and
\* the strength are.
C37_RecommendationFollowsTotalScore ==
    symbol_analysis.unified_signal.recommendation
        = RecommendationBand(symbol_analysis.unified_signal.total_score)

\* A unified signal of 70..84 whose strength is not STRONG for want of
\* technical or confluence points, and one of 50..59.
C37_Witness ==
    /\ symbol_analysis.pc = "done"
    /\ symbol_analysis.unified_signal.total_score \in 50..59
    /\ symbol_analysis.unified_signal.recommendation = "WATCH"

\* The symbol was looked up in the cache by a unit of the cycle.
LookedUp(units, s) == \E i \in DOMAIN units : units[i].symbol = s

\* C38: in every cycle, a unit is served from the cache only an entry that
\* was stored less than 300 seconds before; an entry a unit finds expired
\* is gone after the lookup unless the same unit stores a new one; after a
\* cycle in which a result was stored no expired entry is left; and every
\* stored entry is a result that passed _is_valid_opportunity.
C38_CacheServesFreshValidOnly ==
    [][cycle'.started # cycle.started =>
        /\ \A i \in DOMAIN cycle'.units :
              ~cycle'.units[i].fresh =>
                  /\ cycle'.units[i].symbol \in DOMAIN symbol_cache
                  /\ now - symbol_cache[cycle'.units[i].symbol].cache_time
                         < cache_duration
                  /\ cycle'.units[i].result
                         = symbol_cache[cycle'.units[i].symbol].analysis
        /\ \A s \in DOMAIN symbol_cache :
              (/\ LookedUp(cycle'.units, s)
               /\ now - symbol_cache[s].cache_time >= cache_duration)
                  => \/ s \notin DOMAIN symbol_cache'
                     \/ symbol_cache'[s].cache_time = now
        /\ (\E i \in DOMAIN cycle'.units :
               cycle'.units[i].fresh /\ cycle'.units[i].result # None)
              => \A s \in DOMAIN symbol_cache' :
                     now - symbol_cache'[s].cache_time < cache_duration
        /\ \A s \in DOMAIN symbol_cache' :
              /\ symbol_cache'[s].analysis # None
              /\ symbol_cache'[s].analysis.symbol = s
              /\ is_valid_opportunity(symbol_cache'[s].analysis)]_vars

\* A cycle 300 seconds or more after a valid result was stored in which a
\* unit found its entry expired and stored a new result, and the expired
\* entry of a symbol no unit looked up is gone.
C38_Witness ==
    /\ \E i \in DOMAIN cycle.units :
          /\ cycle.units[i].fresh
          /\ cycle.units[i].result # None
          /\ cycle.units[i].symbol \in DOMAIN cycle.before
          /\ cycle.before[cycle.units[i].symbol].result # None
          /\ cycle.time - cycle.before[cycle.units[i].symbol].time >= cache_duration
    /\ \E s \in DOMAIN cycle.before :
          /\ cycle.before[s].result # None
          /\ ~LookedUp(cycle.units, s)
          /\ s \notin DOMAIN symbol_cache

\* C39: the list a detection cycle returns has at most
\* TARGET_DAILY_SIGNALS + 2 = 5 entries, at most one for a symbol, and
\* holds only signals of tier FUERTE, ALTO or MEDIO with a total score of 60
\* or more; it holds no signal of tier DEBIL and none with an error entry.
C39_ReturnedListBounded ==
    /\ Len(cycle.returned) <= TARGET_DAILY_SIGNALS + TopMargin
    /\ \A i, j \in DOMAIN cycle.returned :
          cycle.returned[i].symbol = cycle.returned[j].symbol => i = j
    /\ \A i \in DOMAIN cycle.returned :
          /\ cycle.returned[i].confidence_level \in {"FUERTE", "ALTO", "MEDIO"}
          /\ cycle.returned[i].total_score >= MediumTopScore
          /\ "error" \notin DOMAIN cycle.returned[i]

\* A cycle that collected six STRONG signals and returned five of them.
C39_Witness ==
    /\ Len(cycle.opportunities) = 6
    /\ \A i \in DOMAIN cycle.opportunities :
          cycle.opportunities[i].confidence_level = "FUERTE"
    /\ Len(cycle.returned) = 5

=============================================================================
